---- MODULE Spec2Model ----
(***************************************************************************)
(* Order saga of the mini-shop: the api gateway (checkout) with the        *)
(* catalog, the order service (orchestrator), the payment service (Charge  *)
(* with retries over a simulated gateway), the document store, the broker  *)
(* queue "order.confirmed" and the email worker (consumer).                *)
(*                                                                         *)
(* The repository holds two builds of the order service and of the payment *)
(* service: one instrumented with the Elastic APM agent ("elastic":        *)
(* order-svc/src/index.js, payment-svc/src/index.js) and one with          *)
(* OpenTelemetry ("otel": unnamed/part_003 and the second program of       *)
(* catalog-svc/src/index.js).  Init chooses the build of each service.     *)
(*                                                                         *)
(* Handlers are split at their awaits: one action per resumption.          *)
(***************************************************************************)
EXTENDS Integers, Sequences, FiniteSets, TLC

\* ---------------------------------------------------------------- bounds
\* Number of POST /order requests of one run.
MaxReqs == 2
\* The model follows the retry loop of one Charge call for at most this many
\* iterations (the loop of the code ends earlier, see maxRetries).
MaxLoop == 4
\* Number of messages other producers route to the queue in one run.
MaxForeign == 1
\* Number of POST /checkout requests of one run.
MaxCheckouts == 1

\* ------------------------------------------------------------- constants
\* payment service: const maxRetries = 3
maxRetries == 3

Reqs == 1..MaxReqs
Cks == 1..MaxCheckouts
Impls == {"elastic", "otel"}

\* "no value": an id that uuidv4 never returns, a field that is not set.
NoId == 0
NoResult == [status |-> "NONE", transaction_id |-> NoId, message |-> ""]
NoOrder == [id |-> NoId, productId |-> "", productName |-> "", quantity |-> 0,
            amount |-> 0, customerEmail |-> "", status |-> "none", paymentId |-> NoId]
\* An HTTP response; caught is the error the handler's catch block logged.
NoResp == [code |-> 0, orderId |-> NoId, id |-> NoId, status |-> "", paymentId |-> NoId,
           message |-> "", error |-> "", caught |-> ""]
\* A POST /checkout request as the handler holds it (product and total once
\* the catalog answered), and the gateway's response.
NoCheckout == [productId |-> "", quantity |-> 0, customerEmail |-> "",
               productName |-> "", totalAmount |-> 0]
NoGResp == [code |-> 0, orderId |-> NoId, amount |-> 0, status |-> "", error |-> ""]
\* email worker: await channel.prefetch(1)
prefetch == 1
\* email worker, startConsumer: let maxRetries = 10, and the 2000 ms timer
\* between two connection attempts.
connectMaxRetries == 10
connectRetryDelay == 2000

\* The worker as main() starts it, and the worker that consumes (its first
\* connection attempt succeeded).
NewWorker == [state |-> "connecting", retryCount |-> 0, attempts |-> 0,
              connected |-> FALSE, waits |-> << >>]
Consuming == [NewWorker EXCEPT !.state = "consuming", !.attempts = 1, !.connected = TRUE]

\* "no response yet" of a client of GET /order/:id.
NoFetch == [id |-> NoId, code |-> 0, body |-> NoOrder, error |-> ""]

\* Request bodies of POST /order (amounts in cents; "" and 0 are the falsy
\* values a missing JSON field reads as).
Bodies ==
  { [productId |-> "1", productName |-> "",       quantity |-> 2, amount |-> 2600, customerEmail |-> "a@b.com"],
    [productId |-> "",  productName |-> "Laptop", quantity |-> 2, amount |-> 2600, customerEmail |-> "a@b.com"],
    [productId |-> "1", productName |-> "Laptop", quantity |-> 0, amount |-> 2600, customerEmail |-> "a@b.com"],
    [productId |-> "1", productName |-> "Laptop", quantity |-> 2, amount |-> 0,    customerEmail |-> "a@b.com"],
    [productId |-> "1", productName |-> "Laptop", quantity |-> 2, amount |-> 2600, customerEmail |-> ""] }

\* Request bodies of POST /checkout (0 and "" as above; -5 is the invalid
\* quantity of the load test, "invalid_id" its unknown product).
Checkouts ==
  { [productId |-> "1", quantity |-> 2,  customerEmail |-> "a@b.com"],
    [productId |-> "1", quantity |-> -5, customerEmail |-> "a@b.com"],
    [productId |-> "1", quantity |-> 0,  customerEmail |-> "a@b.com"],
    [productId |-> "",  quantity |-> 2,  customerEmail |-> "a@b.com"],
    [productId |-> "1", quantity |-> 2,  customerEmail |-> ""],
    [productId |-> "invalid_id", quantity |-> 1, customerEmail |-> "a@b.com"] }

\* The catalog (sampleProducts), prices in cents.
Catalog == [p \in {"1"} |-> [name |-> "Windsurf Laptop Pro", price |-> 129999]]

\* The traceparent headers other producers set: none, "bad-header", a
\* well-formed one, and one with a fifth part.
Traceparents ==
  { << >>,
    <<"bad", "-", "header">>,
    <<"00", "-", "4bf9", "-", "00f0", "-", "01">>,
    <<"00", "-", "4bf9", "-", "00f0", "-", "01", "-", "x">> }

\* Outcomes of one call of the simulated gateway: resolve(APPROVED),
\* resolve(DECLINED), reject(error).
GatewayOutcomes == {"approve", "decline", "throw"}

VARIABLES
  gpc,            \* per checkout: where the POST /checkout handler stands
  checkout,       \* per checkout: the request, the product name and the total
  orderOf,        \* per checkout: the POST /order request it made
  gresp,          \* per checkout: the HTTP response sent
  orderImpl,      \* build of the order service
  paymentImpl,    \* build of the payment service
  listening,      \* order service: app.listen was called
  rabbitChannel,  \* order service: the module-level channel is set
  pc,             \* per request: where the POST /order handler stands
  order,          \* per request: the handler's local order object
  callOf,         \* per request: the Charge call it waits for
  chargeCalls,    \* per request: paymentClient.Charge invocations made
  resp,           \* per request: the HTTP response sent
  calls,          \* payment service: the Charge calls, in arrival order
  store,          \* document store, index "orders": id -> document
  writes,         \* history: esClient.index calls applied, per id
  published,      \* history: order.confirmed publishes, per id
  queue,          \* broker queue "order.confirmed"
  nextOrderId,    \* uuidv4 of the order service: next fresh value
  foreign,        \* broker: messages other producers routed to the queue
  handlers,       \* consumer: the running message handlers (unacked deliveries)
  emails,         \* history: the confirmations sent, with how many times
  worker,         \* consumer: where startConsumer stands, its retryCount and waits
  fetched         \* client of GET /order/:id: the last response received

vars == <<gpc, checkout, orderOf, gresp, orderImpl, paymentImpl, listening, rabbitChannel, pc, order, callOf,
          chargeCalls, resp, calls, store, writes, published, queue,
          nextOrderId, foreign, handlers, emails, worker, fetched>>

gatewayVars == <<gpc, checkout, orderOf, gresp>>
orderVars == <<pc, order, callOf, chargeCalls, resp, nextOrderId>>
brokerVars == <<published, queue, foreign>>
consumerVars == <<handlers, emails>>
startupVars == <<worker>>
readVars == <<fetched>>
storeVars == <<store, writes>>
setupVars == <<orderImpl, paymentImpl, listening, rabbitChannel>>

\* The services as their processes start; the worker is left to Init and
\* InitStartup.
InitServices ==
  /\ gpc = [k \in Cks |-> "new"]
  /\ checkout = [k \in Cks |-> NoCheckout]
  /\ orderOf = [k \in Cks |-> NoId]
  /\ gresp = [k \in Cks |-> NoGResp]
  /\ orderImpl \in Impls
  /\ paymentImpl \in Impls
  /\ listening = FALSE
  /\ rabbitChannel = FALSE
  /\ pc = [r \in Reqs |-> "new"]
  /\ order = [r \in Reqs |-> NoOrder]
  /\ callOf = [r \in Reqs |-> NoId]
  /\ chargeCalls = [r \in Reqs |-> 0]
  /\ resp = [r \in Reqs |-> NoResp]
  /\ calls = << >>
  /\ store = << >>
  /\ writes = << >>
  /\ published = << >>
  /\ queue = << >>
  /\ nextOrderId = 1
  /\ foreign = 0
  /\ handlers = {}
  /\ emails = << >>
  /\ fetched = NoFetch

\* The system with the worker consuming before the first request arrives.
Init ==
  /\ InitServices
  /\ worker = Consuming

\* The system as main() of the worker starts.
InitStartup ==
  /\ InitServices
  /\ worker = NewWorker

\* ------------------------------------------------------------ helpers
\* Number recorded for id in a per-id history (0 when none).
Count(f, id) == IF id \in DOMAIN f THEN f[id] ELSE 0

Bump(f, id) == (id :> (Count(f, id) + 1)) @@ f

RECURSIVE Pow2(_)
Pow2(n) == IF n = 0 THEN 1 ELSE 2 * Pow2(n - 1)

\* ---------------------------------------------------- trace context
\* The value of a traceparent header: a sequence of chunks, each "-" or a text
\* without dashes.  NoHeader: the header is absent (or the empty string).
NoHeader == << >>

\* The W3C form of a span context: version-traceId-spanId-flags.
Traceparent(traceId, spanId) == <<"00", "-", traceId, "-", spanId, "-", "01">>

\* The scan of split: parts are the texts already closed by a separator, part
\* is the text read since the last one.
RECURSIVE SplitFrom(_, _, _, _)
SplitFrom(s, sep, parts, part) ==
  IF s = << >> THEN Append(parts, part)
  ELSE IF Head(s) = sep THEN SplitFrom(Tail(s), sep, Append(parts, part), << >>)
  ELSE SplitFrom(Tail(s), sep, parts, Append(part, Head(s)))

\* traceparent.split("-"): the texts between the separators, "" included.
Split(s, sep) == SplitFrom(s, sep, << >>, << >>)

\* The string a sequence of chunks spells.
RECURSIVE Text(_)
Text(chunks) == IF chunks = << >> THEN "" ELSE Head(chunks) \o Text(Tail(chunks))

\* parts[i] of a JavaScript array (from 0; undefined reads as "").
Part(parts, i) == IF i + 1 \in DOMAIN parts THEN Text(parts[i + 1]) ELSE ""

\* parseInt(text, 16) of the flags (NaN is -1).
ParseFlags(text) == IF text = "01" THEN 1 ELSE IF text = "00" THEN 0 ELSE -1

\* "no span context": no parentContext argument, no span in the context.
NoContext == [traceId |-> "", spanId |-> "", isRemote |-> FALSE, traceFlags |-> 0]

\* The ids of the span in which request r publishes (drawn by the tracer of
\* the order service; no two requests share them).
TraceIdOf(r) == "trace" \o ToString(r)
SpanIdOf(r) == "span" \o ToString(r)

\* The id a span of the worker takes when its tracer starts a new trace.
WorkerTraceId == "worker-trace"

\* The headers of a message as it leaves the publisher: the publish call
\* passes { contentType, messageId, timestamp } and no headers; in the otel
\* build the amqplib instrumentation registered by
\* getNodeAutoInstrumentations injects the active span's traceparent.
PublishHeaders(impl, r) ==
  IF impl = "otel" THEN Traceparent(TraceIdOf(r), SpanIdOf(r)) ELSE NoHeader

\* Mutant of ParentSpanContext: the number of parts is not tested.
ParentSpanContextUnchecked(traceparent) ==
  IF traceparent = NoHeader THEN NoContext
  ELSE LET parts == Split(traceparent, "-")
       IN [traceId |-> Part(parts, 1), spanId |-> Part(parts, 2), isRemote |-> TRUE,
           traceFlags |-> ParseFlags(Part(parts, 3))]

\* The consume callback: the parent span context it passes to
\* processOrderConfirmed (NoContext when it passes none).
ParentSpanContext(traceparent) ==
  IF traceparent = NoHeader THEN NoContext
  ELSE LET parts == Split(traceparent, "-")
       IN IF Len(parts) = 4
          THEN [traceId |-> Part(parts, 1), spanId |-> Part(parts, 2), isRemote |-> TRUE,
                traceFlags |-> ParseFlags(Part(parts, 3))]
          ELSE NoContext

\* spanOptions of processOrderConfirmed.
SpanOptions(parentContext) ==
  [kind |-> "CONSUMER", root |-> TRUE,
   links |-> IF parentContext = NoContext THEN << >> ELSE <<parentContext>>]

\* tracer.startActiveSpan(name, options, fn) called in context ctx: a root
\* span (option root, or no span in ctx) starts a new trace, any other span is
\* the child of the span of ctx.
StartSpan(options, ctx) ==
  IF options.root \/ ctx = NoContext
  THEN [traceId |-> WorkerTraceId, parentSpanId |-> "", links |-> options.links]
  ELSE [traceId |-> ctx.traceId, parentSpanId |-> ctx.spanId, links |-> options.links]

\* Mutant of ProcessSpan: the handling span is started as the child of the
\* publisher's span, without a link.
ProcessSpanAsChild(parentContext) ==
  StartSpan([kind |-> "CONSUMER", root |-> FALSE, links |-> << >>], parentContext)

\* The span process_order_confirmed_message:
\* context.with(context.ROOT_CONTEXT, () => tracer.startActiveSpan(...)).
ProcessSpan(parentContext) == StartSpan(SpanOptions(parentContext), NoContext)

\* ------------------------------------------------- payment service
\* const STATUS = { APPROVED: 0, DECLINED: 1, ERROR: 2 }
STATUS == [APPROVED |-> 0, DECLINED |-> 1, ERROR |-> 2]

\* The enum name a numeric status is read as by the gRPC client
\* (protoLoader option enums: String; payment.proto declares the three values).
EnumName(n) ==
  CASE n = 0 -> "APPROVED"
    [] n = 1 -> "DECLINED"
    [] n = 2 -> "ERROR"

\* A Charge request as it arrives at the payment service.
NewCall(order_id, amount) ==
  [order_id |-> order_id, amount |-> amount, state |-> "requested",
   attempt |-> 0, txn |-> NoId, spanTxns |-> << >>, waits |-> << >>,
   lastError |-> "", result |-> NoResult]

\* const transactionId = uuidv4(), once per call, before the loop.  uuidv4
\* returns no value twice: the value drawn while serving call c is named c.
GenerateTransactionId(c) == c

\* Mutant of AttemptTxn: the id is drawn inside the loop, one per attempt.
AttemptTxnPerAttempt(call) == call.txn + call.attempt

\* The payment.transaction_id label of the attempt that starts now.
AttemptTxn(call) == call.txn

\* Top of the loop body: the attempt span is created and the gateway is called.
StartAttempt(call) ==
  [call EXCEPT !.state = "attempting", !.spanTxns = Append(@, AttemptTxn(call))]

\* Mutant of LoopContinues: attempt <= maxRetries.
LoopContinuesInclusive(attempt) == attempt <= maxRetries

\* Mutant of LoopContinues: the loop has no attempt cap.
LoopContinuesForever(attempt) == TRUE

\* for (let attempt = 0; attempt < maxRetries; attempt++)
LoopContinues(attempt) == attempt < maxRetries

\* elastic: if (attempt === maxRetries - 1) break;
IsLastAttempt(attempt) == attempt = maxRetries - 1

\* Mutant of BackoffDelay: every wait is 100 ms.
BackoffDelayConstant(impl, attempt) == 100

\* Delay before the next attempt: elastic 100 * 2^attempt, otel 100 * (attempt + 1).
BackoffDelay(impl, attempt) ==
  IF impl = "elastic" THEN 100 * Pow2(attempt) ELSE 100 * (attempt + 1)

\* error.message of a failed attempt (elastic build: a decline is thrown too).
AttemptError(outcome) ==
  IF outcome = "decline" THEN "Payment declined by gateway"
  ELSE "Payment gateway connection timeout"

ApprovedResult(impl, call) ==
  IF impl = "elastic"
  THEN [status |-> "APPROVED", transaction_id |-> call.txn, message |-> ""]
  ELSE [status |-> EnumName(STATUS.APPROVED), transaction_id |-> call.txn,
        message |-> "Payment approved"]

\* otel build only: a decline ends the call.
DeclinedResult(call) ==
  [status |-> EnumName(STATUS.DECLINED), transaction_id |-> call.txn,
   message |-> "Payment declined by processor"]

\* "All retries failed": the elastic build returns {status, message} and the
\* field transaction_id takes the proto default; the otel build sets it.
ExhaustedResult(impl, call) ==
  IF impl = "elastic"
  THEN [status |-> "ERROR", transaction_id |-> NoId, message |-> call.lastError]
  ELSE [status |-> EnumName(STATUS.ERROR), transaction_id |-> call.txn,
        message |-> "Payment processing failed after multiple attempts"]

\* The call once the client has its response: the service keeps nothing of it
\* (the record keeps what was answered).
Closed(call) ==
  [NewCall(call.order_id, call.amount) EXCEPT
     !.state = "closed", !.txn = call.txn, !.spanTxns = call.spanTxns,
     !.result = call.result]

Return(call, result) == [call EXCEPT !.state = "returned", !.result = result]

\* Mutant of AfterGateway: an approval does not leave the loop; while attempts
\* remain the call waits and calls the gateway again.
AfterGatewayApprovalRetried(impl, call, outcome) ==
  IF outcome = "approve" /\ IsLastAttempt(call.attempt)
  THEN Return(call, ApprovedResult(impl, call))
  ELSE IF impl = "otel" /\ outcome = "decline" THEN Return(call, DeclinedResult(call))
  ELSE LET failed == [call EXCEPT !.lastError = AttemptError(outcome)]
       IN IF impl = "elastic" /\ IsLastAttempt(call.attempt)
          THEN Return(failed, ExhaustedResult(impl, failed))
          ELSE [failed EXCEPT !.state = "backoff",
                              !.waits = Append(@, BackoffDelay(impl, call.attempt))]

\* Mutant of AfterGateway: an error thrown by the gateway is not caught; the
\* call fails (the RPC ends with an error).
AfterGatewayThrowRaised(impl, call, outcome) ==
  IF outcome = "approve" THEN Return(call, ApprovedResult(impl, call))
  ELSE IF outcome = "throw"
  THEN [call EXCEPT !.state = "failed", !.lastError = AttemptError(outcome)]
  ELSE IF impl = "otel" THEN Return(call, DeclinedResult(call))
  ELSE LET failed == [call EXCEPT !.lastError = AttemptError(outcome)]
       IN IF IsLastAttempt(call.attempt)
          THEN Return(failed, ExhaustedResult(impl, failed))
          ELSE [failed EXCEPT !.state = "backoff",
                              !.waits = Append(@, BackoffDelay(impl, call.attempt))]

\* What the call becomes when the gateway answers the running attempt.
AfterGateway(impl, call, outcome) ==
  IF outcome = "approve" THEN Return(call, ApprovedResult(impl, call))
  ELSE IF impl = "otel" /\ outcome = "decline" THEN Return(call, DeclinedResult(call))
  ELSE LET failed == [call EXCEPT !.lastError = AttemptError(outcome)]
       IN IF impl = "elastic" /\ IsLastAttempt(call.attempt)
          THEN Return(failed, ExhaustedResult(impl, failed))
          ELSE [failed EXCEPT !.state = "backoff",
                              !.waits = Append(@, BackoffDelay(impl, call.attempt))]

\* What the call becomes when the backoff timer fires: attempt++ and the loop test.
AfterBackoff(impl, call) ==
  LET next == [call EXCEPT !.attempt = @ + 1]
  IN IF LoopContinues(next.attempt) THEN StartAttempt(next)
     ELSE Return(next, ExhaustedResult(impl, next))

\* charge -> processPaymentWithRetry up to the first gateway call.
ChargeStart(c) ==
  /\ calls[c].state = "requested"
  /\ calls' = [calls EXCEPT ![c] =
                 StartAttempt([@ EXCEPT !.txn = GenerateTransactionId(c)])]
  /\ UNCHANGED <<setupVars, startupVars, readVars, gatewayVars, orderVars, storeVars, brokerVars, consumerVars>>

\* The gateway's timer fires: the attempt ends.
GatewayReply(c, outcome) ==
  /\ calls[c].state = "attempting"
  /\ calls' = [calls EXCEPT ![c] = AfterGateway(paymentImpl, @, outcome)]
  /\ UNCHANGED <<setupVars, startupVars, readVars, gatewayVars, orderVars, storeVars, brokerVars, consumerVars>>

\* The backoff timer fires.
BackoffDone(c) ==
  /\ calls[c].state = "backoff"
  /\ calls[c].attempt < MaxLoop
  /\ calls' = [calls EXCEPT ![c] = AfterBackoff(paymentImpl, @)]
  /\ UNCHANGED <<setupVars, startupVars, readVars, gatewayVars, orderVars, storeVars, brokerVars, consumerVars>>

\* --------------------------------------------------- order service
\* setupRabbitMQ, called by start() before app.listen and again by its own
\* 5 s timer while no connection was made.
SetupRabbitMQ(ok) ==
  /\ ~rabbitChannel
  /\ rabbitChannel' = ok
  /\ listening' = TRUE
  /\ UNCHANGED <<orderImpl, paymentImpl, startupVars, readVars, gatewayVars, orderVars, calls, storeVars,
                 brokerVars, consumerVars>>

\* if (!productId || !quantity || !amount || !customerEmail)
MissingParameters(body) ==
  \/ body.productId = ""
  \/ body.quantity = 0
  \/ body.amount = 0
  \/ body.customerEmail = ""

\* const order = { id: orderId, ..., status: 'pending', createdAt }
NewOrder(orderId, body) ==
  [id |-> orderId, productId |-> body.productId,
   productName |-> IF body.productName = "" THEN "Unknown Product" ELSE body.productName,
   quantity |-> body.quantity, amount |-> body.amount,
   customerEmail |-> body.customerEmail, status |-> "pending", paymentId |-> NoId]

\* Mutant of OrderAfterPayment: the status is compared with 'approved'.
OrderAfterPaymentLowerCase(o, paymentResult) ==
  IF paymentResult.status # "approved"
  THEN [o EXCEPT !.status = "payment_failed"]
  ELSE [o EXCEPT !.status = "confirmed", !.paymentId = paymentResult.transaction_id]

\* Mutant of OrderAfterPayment: only ERROR counts as a failed payment.
OrderAfterPaymentErrorOnly(o, paymentResult) ==
  IF paymentResult.status = "ERROR"
  THEN [o EXCEPT !.status = "payment_failed"]
  ELSE [o EXCEPT !.status = "confirmed", !.paymentId = paymentResult.transaction_id]

\* if (paymentResult.status !== 'APPROVED') ... else ...
OrderAfterPayment(o, paymentResult) ==
  IF paymentResult.status # "APPROVED"
  THEN [o EXCEPT !.status = "payment_failed"]
  ELSE [o EXCEPT !.status = "confirmed", !.paymentId = paymentResult.transaction_id]

\* catch (error) { ...; return res.status(500).json({ error: 'Failed to process order' }) }
ErrorResponse(error) ==
  [NoResp EXCEPT !.code = 500, !.error = "Failed to process order", !.caught = error]

\* res.status(400).json({ error: 'Payment declined', orderId, status, message })
DeclinedResponse(o, paymentResult) ==
  [NoResp EXCEPT !.code = 400, !.error = "Payment declined",
                 !.orderId = o.id, !.status = o.status,
                 !.message = paymentResult.message]

\* 201: elastic { orderId, status }; otel { id, status, paymentId }.
CreatedResponse(impl, o) ==
  IF impl = "elastic"
  THEN [NoResp EXCEPT !.code = 201, !.orderId = o.id, !.status = o.status]
  ELSE [NoResp EXCEPT !.code = 201, !.id = o.id, !.status = o.status,
                      !.paymentId = o.paymentId]

\* POST /order up to the await of processPayment: validation, the order
\* object, and the Charge request sent.  Requests are numbered in the order
\* they arrive.
CreateOrder(r, body) ==
  /\ listening
  /\ pc[r] = "new"
  /\ \A q \in Reqs : q < r => pc[q] # "new"
  /\ IF MissingParameters(body)
     THEN /\ resp' = [resp EXCEPT ![r] =
               [NoResp EXCEPT !.code = 400, !.error = "Missing required parameters"]]
          /\ pc' = [pc EXCEPT ![r] = "done"]
          /\ UNCHANGED <<order, callOf, chargeCalls, calls, nextOrderId>>
     ELSE /\ order' = [order EXCEPT ![r] = NewOrder(nextOrderId, body)]
          /\ nextOrderId' = nextOrderId + 1
          /\ calls' = Append(calls, NewCall(nextOrderId, body.amount))
          /\ callOf' = [callOf EXCEPT ![r] = Len(calls) + 1]
          /\ chargeCalls' = [chargeCalls EXCEPT ![r] = @ + 1]
          /\ pc' = [pc EXCEPT ![r] = "awaitPayment"]
          /\ UNCHANGED resp
  /\ UNCHANGED <<setupVars, startupVars, readVars, storeVars, brokerVars, consumerVars>>

\* POST /order sent by a client of the order service.
Receive(r, body) ==
  /\ CreateOrder(r, body)
  /\ UNCHANGED gatewayVars

\* Mutant of PaymentResponse: a failed payment marks the order payment_failed
\* and Charge is called once more for it.
PaymentResponseRecharge(r) ==
  /\ pc[r] = "awaitPayment"
  /\ calls[callOf[r]].state = "returned"
  /\ order' = [order EXCEPT ![r] = OrderAfterPayment(@, calls[callOf[r]].result)]
  /\ IF calls[callOf[r]].result.status # "APPROVED" /\ chargeCalls[r] < 2
     THEN /\ calls' = Append([calls EXCEPT ![callOf[r]] = Closed(@)],
                             NewCall(order[r].id, order[r].amount))
          /\ callOf' = [callOf EXCEPT ![r] = Len(calls) + 1]
          /\ chargeCalls' = [chargeCalls EXCEPT ![r] = @ + 1]
          /\ UNCHANGED pc
     ELSE /\ calls' = [calls EXCEPT ![callOf[r]] = Closed(@)]
          /\ pc' = [pc EXCEPT ![r] = "awaitIndex"]
          /\ UNCHANGED <<callOf, chargeCalls>>
  /\ UNCHANGED <<setupVars, startupVars, readVars, gatewayVars, resp, nextOrderId, storeVars, brokerVars, consumerVars>>

\* processPayment resolves: the order takes its terminal status and
\* esClient.index is called.
PaymentResponse(r) ==
  /\ pc[r] = "awaitPayment"
  /\ calls[callOf[r]].state = "returned"
  /\ order' = [order EXCEPT ![r] = OrderAfterPayment(@, calls[callOf[r]].result)]
  /\ calls' = [calls EXCEPT ![callOf[r]] = Closed(@)]
  /\ pc' = [pc EXCEPT ![r] = "awaitIndex"]
  /\ UNCHANGED <<setupVars, startupVars, readVars, gatewayVars, callOf, chargeCalls, resp, nextOrderId,
                 storeVars, brokerVars, consumerVars>>

\* Mutant of PaymentRpcError: the failed call is recorded as a failed payment
\* and the order is stored.
PaymentRpcErrorStored(r) ==
  /\ pc[r] = "awaitPayment"
  /\ calls[callOf[r]].state = "requested"
  /\ calls' = [calls EXCEPT ![callOf[r]].state = "failed"]
  /\ order' = [order EXCEPT ![r].status = "payment_failed"]
  /\ store' = (order[r].id :> order'[r]) @@ store
  /\ writes' = Bump(writes, order[r].id)
  /\ resp' = [resp EXCEPT ![r] = ErrorResponse("rpc")]
  /\ pc' = [pc EXCEPT ![r] = "done"]
  /\ UNCHANGED <<setupVars, startupVars, readVars, gatewayVars, callOf, chargeCalls, nextOrderId,
                 brokerVars, consumerVars>>

\* processPayment rejects (the RPC fails before the payment service takes the
\* call): the handler's catch answers 500.
PaymentRpcError(r) ==
  /\ pc[r] = "awaitPayment"
  /\ calls[callOf[r]].state = "requested"
  /\ calls' = [calls EXCEPT ![callOf[r]].state = "failed"]
  /\ resp' = [resp EXCEPT ![r] = ErrorResponse("rpc")]
  /\ pc' = [pc EXCEPT ![r] = "done"]
  /\ UNCHANGED <<setupVars, startupVars, readVars, gatewayVars, order, callOf, chargeCalls, nextOrderId,
                 storeVars, brokerVars, consumerVars>>

\* Mutant of IndexOrder: the write is acknowledged and lost.
IndexOrderLost(o) == store

\* Mutant of IndexOrder: the document is indexed under a constant id.
IndexOrderConstantId(o) == (1 :> o) @@ store

\* esClient.index({ index: 'orders', id: orderId, body: order }) applied.
IndexOrder(o) == (o.id :> o) @@ store

\* Mutant of IndexDone: a failed esClient.index is logged and the handler goes
\* on (the approved branch publishes, the failed-payment branch answers 400).
IndexDoneSwallowFailure(r, ok) ==
  /\ pc[r] = "awaitIndex"
  /\ IF ok
     THEN /\ store' = IndexOrder(order[r])
          /\ writes' = Bump(writes, order[r].id)
     ELSE UNCHANGED storeVars
  /\ IF order[r].status = "payment_failed"
     THEN /\ resp' = [resp EXCEPT ![r] =
                        DeclinedResponse(order[r], calls[callOf[r]].result)]
          /\ pc' = [pc EXCEPT ![r] = "done"]
     ELSE /\ pc' = [pc EXCEPT ![r] = "publishing"]
          /\ UNCHANGED resp
  /\ UNCHANGED <<setupVars, startupVars, readVars, gatewayVars, order, callOf, chargeCalls, nextOrderId, calls,
                 brokerVars, consumerVars>>

\* Mutant of IndexDone: the confirmation is published for every stored order,
\* the failed ones too.
IndexDonePublishesFailed(r, ok) ==
  /\ pc[r] = "awaitIndex"
  /\ IF ok
     THEN /\ store' = IndexOrder(order[r])
          /\ writes' = Bump(writes, order[r].id)
          /\ pc' = [pc EXCEPT ![r] = "publishing"]
          /\ UNCHANGED resp
     ELSE /\ resp' = [resp EXCEPT ![r] = ErrorResponse("index")]
          /\ pc' = [pc EXCEPT ![r] = "done"]
          /\ UNCHANGED storeVars
  /\ UNCHANGED <<setupVars, startupVars, readVars, gatewayVars, order, callOf, chargeCalls, nextOrderId, calls,
                 brokerVars, consumerVars>>

\* esClient.index settles.  ok: the document is stored; the failed-payment
\* branch answers 400, the approved branch goes on to publish.  ~ok: the
\* handler's catch answers 500.
IndexDone(r, ok) ==
  /\ pc[r] = "awaitIndex"
  /\ IF ok
     THEN /\ store' = IndexOrder(order[r])
          /\ writes' = Bump(writes, order[r].id)
          /\ IF order[r].status = "payment_failed"
             THEN /\ resp' = [resp EXCEPT ![r] =
                                DeclinedResponse(order[r], calls[callOf[r]].result)]
                  /\ pc' = [pc EXCEPT ![r] = "done"]
             ELSE /\ pc' = [pc EXCEPT ![r] = "publishing"]
                  /\ UNCHANGED resp
     ELSE /\ resp' = [resp EXCEPT ![r] = ErrorResponse("index")]
          /\ pc' = [pc EXCEPT ![r] = "done"]
          /\ UNCHANGED storeVars
  /\ UNCHANGED <<setupVars, startupVars, readVars, gatewayVars, order, callOf, chargeCalls, nextOrderId, calls,
                 brokerVars, consumerVars>>

\* The message rabbitChannel.publish sends: Buffer.from(JSON.stringify(order)).
\* json: the payload is the JSON text of content (of a message of another
\* producer it may be any bytes).
ConfirmationEvent(o) ==
  [content |-> o, json |-> TRUE, traceparent |-> NoHeader, redelivered |-> FALSE]

\* The message as the broker receives it from request r.
Published(impl, r, msg) == [msg EXCEPT !.traceparent = PublishHeaders(impl, r)]

\* What the handler answers when publishOrderConfirmed failed: the elastic
\* build rethrows (500), the otel build returns false and the handler goes on.
ResponseAfterPublishFailure(impl, o) ==
  IF impl = "elastic" THEN ErrorResponse("publish") ELSE CreatedResponse(impl, o)

\* Mutant of Publish: a failed publish is compensated by storing the order
\* as payment_failed.
PublishWithRollback(r, ok) ==
  /\ pc[r] = "publishing"
  /\ IF rabbitChannel /\ ok
     THEN /\ queue' = Append(queue, Published(orderImpl, r, ConfirmationEvent(order[r])))
          /\ published' = Bump(published, order[r].id)
          /\ resp' = [resp EXCEPT ![r] = CreatedResponse(orderImpl, order[r])]
          /\ UNCHANGED <<store, foreign>>
     ELSE /\ resp' = [resp EXCEPT ![r] = ResponseAfterPublishFailure(orderImpl, order[r])]
          /\ store' = [store EXCEPT ![order[r].id].status = "payment_failed"]
          /\ UNCHANGED brokerVars
  /\ pc' = [pc EXCEPT ![r] = "done"]
  /\ UNCHANGED <<setupVars, startupVars, readVars, gatewayVars, order, callOf, chargeCalls, nextOrderId, calls,
                 writes, consumerVars>>

\* publishOrderConfirmed(order) and the response.  The publish succeeds when
\* the channel is set and rabbitChannel.publish does not throw (ok).
Publish(r, ok) ==
  /\ pc[r] = "publishing"
  /\ IF rabbitChannel /\ ok
     THEN /\ queue' = Append(queue, Published(orderImpl, r, ConfirmationEvent(order[r])))
          /\ published' = Bump(published, order[r].id)
          /\ resp' = [resp EXCEPT ![r] = CreatedResponse(orderImpl, order[r])]
          /\ UNCHANGED foreign
     ELSE /\ resp' = [resp EXCEPT ![r] = ResponseAfterPublishFailure(orderImpl, order[r])]
          /\ UNCHANGED brokerVars
  /\ pc' = [pc EXCEPT ![r] = "done"]
  /\ UNCHANGED <<setupVars, startupVars, readVars, gatewayVars, order, callOf, chargeCalls, nextOrderId, calls,
                 storeVars, consumerVars>>

\* Mutant of GetOrder: the catch block does not tell a 404 of the store from
\* its other errors.
GetOrderNotFoundAsError(id, ok) ==
  IF ok /\ id \in DOMAIN store THEN [code |-> 200, body |-> store[id], error |-> ""]
  ELSE [code |-> 500, body |-> NoOrder, error |-> "Failed to fetch order"]

\* GET /order/:id: esClient.get settles (ok: the store answers, a missing
\* document is a 404; ~ok: any other error).
GetOrder(id, ok) ==
  IF ~ok THEN [code |-> 500, body |-> NoOrder, error |-> "Failed to fetch order"]
  ELSE IF id \in DOMAIN store THEN [code |-> 200, body |-> store[id], error |-> ""]
  ELSE [code |-> 404, body |-> NoOrder, error |-> "Order not found"]

\* A client's GET /order/:id is served: the handler's only await is
\* esClient.get, and its response reaches the client.
GetOrderRequest(id, ok) ==
  /\ listening
  /\ fetched' = [id |-> id] @@ GetOrder(id, ok)
  /\ UNCHANGED <<setupVars, startupVars, gatewayVars, orderVars, calls, storeVars,
                 brokerVars, consumerVars>>

\* ------------------------------------------------------ api gateway
\* if (!productId || !quantity || !customerEmail)
MissingCheckoutParameters(req) ==
  \/ req.productId = ""
  \/ req.quantity = 0
  \/ req.customerEmail = ""

\* res.status(status).json({ error: message })
CheckoutError(status, message) == [NoGResp EXCEPT !.code = status, !.error = message]

\* POST /checkout up to the await of the catalog request.  Checkouts are
\* numbered in the order they arrive.
Checkout(k, req) ==
  /\ gpc[k] = "new"
  /\ \A j \in Cks : j < k => gpc[j] # "new"
  /\ IF MissingCheckoutParameters(req)
     THEN /\ gresp' = [gresp EXCEPT ![k] = CheckoutError(400, "Missing required parameters")]
          /\ gpc' = [gpc EXCEPT ![k] = "done"]
     ELSE /\ gpc' = [gpc EXCEPT ![k] = "awaitCatalog"]
          /\ UNCHANGED gresp
  /\ checkout' = [checkout EXCEPT ![k] =
                    [NoCheckout EXCEPT !.productId = req.productId,
                                       !.quantity = req.quantity,
                                       !.customerEmail = req.customerEmail]]
  /\ UNCHANGED <<setupVars, startupVars, readVars, orderOf, orderVars, calls, storeVars, brokerVars,
                 consumerVars>>

\* Mutant of TotalAmount: the unit price is charged.
TotalAmountUnitPrice(price, quantity) == price

\* const totalAmount = product.price * quantity
TotalAmount(price, quantity) == price * quantity

\* GET /products/:id of the catalog service settles.  ok: the catalog answers
\* (the product, or 404); ~ok: it answers 500.  The catch block of the
\* gateway forwards the status and the error text.
CatalogReply(k, ok) ==
  /\ gpc[k] = "awaitCatalog"
  /\ IF ~ok
     THEN /\ gresp' = [gresp EXCEPT ![k] = CheckoutError(500, "Failed to retrieve product")]
          /\ gpc' = [gpc EXCEPT ![k] = "done"]
          /\ UNCHANGED checkout
     ELSE IF checkout[k].productId \notin DOMAIN Catalog
     THEN /\ gresp' = [gresp EXCEPT ![k] = CheckoutError(404, "Product not found")]
          /\ gpc' = [gpc EXCEPT ![k] = "done"]
          /\ UNCHANGED checkout
     ELSE /\ LET product == Catalog[checkout[k].productId]
             IN checkout' = [checkout EXCEPT
                  ![k].productName = product.name,
                  ![k].totalAmount = TotalAmount(product.price, checkout[k].quantity)]
          /\ gpc' = [gpc EXCEPT ![k] = "posting"]
          /\ UNCHANGED gresp
  /\ UNCHANGED <<setupVars, startupVars, readVars, orderOf, orderVars, calls, storeVars, brokerVars,
                 consumerVars>>

\* The body of the gateway's POST /order.
OrderRequest(c) ==
  [productId |-> c.productId, productName |-> c.productName,
   quantity |-> c.quantity, amount |-> c.totalAmount,
   customerEmail |-> c.customerEmail]

\* The gateway's POST /order reaches the order service, whose handler runs up
\* to its first await.
PostOrder(k, r) ==
  /\ gpc[k] = "posting"
  /\ CreateOrder(r, OrderRequest(checkout[k]))
  /\ orderOf' = [orderOf EXCEPT ![k] = r]
  /\ gpc' = [gpc EXCEPT ![k] = "awaitOrder"]
  /\ UNCHANGED <<checkout, gresp>>

\* The order service does not listen yet: axios fails without a response.
PostOrderRefused(k) ==
  /\ gpc[k] = "posting"
  /\ ~listening
  /\ gresp' = [gresp EXCEPT ![k] = CheckoutError(500, "Checkout process failed")]
  /\ gpc' = [gpc EXCEPT ![k] = "done"]
  /\ UNCHANGED <<setupVars, startupVars, readVars, checkout, orderOf, orderVars, calls, storeVars,
                 brokerVars, consumerVars>>

\* res.status(201).json({ success, message, orderId: orderData.id,
\*                        amount: totalAmount, status: orderData.status })
CheckoutCreated(c, orderData) ==
  [NoGResp EXCEPT !.code = 201, !.orderId = orderData.id,
                  !.amount = c.totalAmount, !.status = orderData.status]

\* The order service answered the gateway's POST /order: 201 is answered
\* with the checkout result, any other status is thrown by axios and
\* forwarded by the catch block.
CheckoutResponse(k) ==
  /\ gpc[k] = "awaitOrder"
  /\ pc[orderOf[k]] = "done"
  /\ LET orderResponse == resp[orderOf[k]]
     IN gresp' = [gresp EXCEPT ![k] =
          IF orderResponse.code = 201
          THEN CheckoutCreated(checkout[k], orderResponse)
          ELSE CheckoutError(orderResponse.code, orderResponse.error)]
  /\ gpc' = [gpc EXCEPT ![k] = "done"]
  /\ UNCHANGED <<setupVars, startupVars, readVars, checkout, orderOf, orderVars, calls, storeVars,
                 brokerVars, consumerVars>>

\* ---------------------------------------------------- email worker
\* Another producer routes a message to the queue (exchange "orders", key
\* order.confirmed): a JSON payload with at least the order id, and the
\* traceparent header it chose to set.
ForeignPublish(id, traceparent) ==
  /\ foreign < MaxForeign
  /\ foreign' = foreign + 1
  /\ queue' = Append(queue, [ConfirmationEvent([NoOrder EXCEPT !.id = id])
                               EXCEPT !.traceparent = traceparent])
  /\ UNCHANGED <<setupVars, startupVars, readVars, gatewayVars, orderVars, calls, storeVars, published, consumerVars>>

\* Another producer routes a payload that is not JSON to the queue.
PublishUnparseable ==
  /\ foreign < MaxForeign
  /\ foreign' = foreign + 1
  /\ queue' = Append(queue, [ConfirmationEvent(NoOrder) EXCEPT !.json = FALSE])
  /\ UNCHANGED <<setupVars, startupVars, readVars, gatewayVars, orderVars, calls, storeVars, published, consumerVars>>

\* Mutant of ConnectGivesUp: retryCount > maxRetries.
ConnectGivesUpLate(retryCount) == retryCount > connectMaxRetries

\* if (retryCount >= maxRetries) throw err
ConnectGivesUp(retryCount) == retryCount >= connectMaxRetries

\* while (retryCount < maxRetries)
ConnectLoopContinues(retryCount) == retryCount < connectMaxRetries

\* startConsumer, one iteration of its connection loop: amqp.connect settles.
\* ok: break.  ~ok: retryCount++, then the error is rethrown (main() logs it
\* and exits) or the 2 s timer is set.
ConnectAttempt(ok) ==
  /\ worker.state = "connecting"
  /\ worker' =
       IF ok
       THEN [worker EXCEPT !.attempts = @ + 1, !.state = "connected", !.connected = TRUE]
       ELSE IF ConnectGivesUp(worker.retryCount + 1)
       THEN [worker EXCEPT !.attempts = @ + 1, !.retryCount = @ + 1, !.state = "exited"]
       ELSE [worker EXCEPT !.attempts = @ + 1, !.retryCount = @ + 1, !.state = "waiting",
                           !.waits = Append(@, connectRetryDelay)]
  /\ UNCHANGED <<setupVars, readVars, gatewayVars, orderVars, calls, storeVars,
                 brokerVars, consumerVars>>

\* The 2 s timer fires and the loop condition is tested; when it fails the
\* loop ends without a connection and connection.on throws (main() exits).
ConnectRetryTimer ==
  /\ worker.state = "waiting"
  /\ worker' = [worker EXCEPT !.state =
                  IF ConnectLoopContinues(worker.retryCount) THEN "connecting" ELSE "exited"]
  /\ UNCHANGED <<setupVars, readVars, gatewayVars, orderVars, calls, storeVars,
                 brokerVars, consumerVars>>

\* The rest of startConsumer once connected: createChannel, assertExchange,
\* assertQueue, bindQueue, prefetch(1), consume.  ~ok: one of them rejects
\* and main() exits.
StartConsuming(ok) ==
  /\ worker.state = "connected"
  /\ worker' = [worker EXCEPT !.state = IF ok THEN "consuming" ELSE "exited"]
  /\ UNCHANGED <<setupVars, readVars, gatewayVars, orderVars, calls, storeVars,
                 brokerVars, consumerVars>>

\* The handler of a delivery, up to its await of esClient.get: the consume
\* callback reads the traceparent header and processOrderConfirmed starts its
\* span and parses the payload.
NewHandler(msg) ==
  [msg |-> msg, pc |-> "get", orderDetails |-> NoOrder,
   span |-> ProcessSpan(ParentSpanContext(msg.traceparent))]

\* Mutant of WithinPrefetch: no prefetch limit is set on the channel.
WithinPrefetchUnlimited(unacked) == TRUE

\* channel.prefetch(1): the broker delivers while fewer deliveries are unacked.
WithinPrefetch(unacked) == unacked < prefetch

\* Mutant of Deliver: a payload that does not parse is acknowledged and
\* dropped.
DeliverDropsUnparseable ==
  /\ worker.state = "consuming"
  /\ queue # << >>
  /\ WithinPrefetch(Cardinality(handlers))
  /\ IF Head(queue).json
     THEN handlers' = handlers \cup {NewHandler(Head(queue))}
     ELSE UNCHANGED handlers
  /\ queue' = Tail(queue)
  /\ UNCHANGED <<setupVars, startupVars, readVars, gatewayVars, orderVars, calls, storeVars, published, foreign, emails>>

\* The broker delivers the head of the queue and the consume callback starts
\* processOrderConfirmed: the payload is parsed and esClient.get is called.
\* JSON.parse of a payload that is not JSON throws before the first await: the
\* catch block nacks with requeue in the same run and the message is back at
\* the head of the queue, marked redelivered.
Deliver ==
  /\ worker.state = "consuming"
  /\ queue # << >>
  /\ WithinPrefetch(Cardinality(handlers))
  /\ IF Head(queue).json
     THEN /\ handlers' = handlers \cup {NewHandler(Head(queue))}
          /\ queue' = Tail(queue)
     ELSE /\ UNCHANGED handlers
          /\ queue' = <<[Head(queue) EXCEPT !.redelivered = TRUE]>> \o Tail(queue)
  /\ UNCHANGED <<setupVars, startupVars, readVars, gatewayVars, orderVars, calls, storeVars, published, foreign, emails>>

\* channel.ack(msg)
Ack(h) ==
  /\ handlers' = handlers \ {h}
  /\ UNCHANGED queue

\* Mutant of NackRequeue: channel.nack(msg, false, false), the message is
\* discarded.
NackDiscard(h) ==
  /\ handlers' = handlers \ {h}
  /\ UNCHANGED queue

\* channel.nack(msg, false, true): the message returns to the head of the
\* queue, marked redelivered.
NackRequeue(h) ==
  /\ handlers' = handlers \ {h}
  /\ queue' = <<[h.msg EXCEPT !.redelivered = TRUE]>> \o queue

\* getOrderFromES: what esClient.get gives for id.  ok: the store answers
\* (the document, or 404 -> null); ~ok: any other error, rethrown.
GetOrderFromES(id, ok) ==
  IF ~ok THEN "error"
  ELSE IF id \in DOMAIN store THEN "found"
  ELSE "null"

\* Mutant of ConsumerGet: a missing order is retried (nack with requeue).
ConsumerGetRetryMissing(h, ok) ==
  /\ h \in handlers
  /\ h.pc = "get"
  /\ IF GetOrderFromES(h.msg.content.id, ok) = "found"
     THEN /\ handlers' = (handlers \ {h}) \cup
               {[h EXCEPT !.pc = "send", !.orderDetails = store[h.msg.content.id]]}
          /\ UNCHANGED queue
     ELSE NackRequeue(h)
  /\ UNCHANGED <<setupVars, startupVars, readVars, gatewayVars, orderVars, calls, storeVars, published, foreign, emails>>

\* Mutant of ConsumerGet: the message is acknowledged as soon as the order is
\* found, before sendEmail.
ConsumerGetAckFirst(h, ok) ==
  /\ h \in handlers
  /\ h.pc = "get"
  /\ IF GetOrderFromES(h.msg.content.id, ok) = "error" THEN NackRequeue(h) ELSE Ack(h)
  /\ UNCHANGED <<setupVars, startupVars, readVars, gatewayVars, orderVars, calls, storeVars, published, foreign, emails>>

\* Mutant of ConsumerGet: when the order is missing the handler returns
\* without settling the delivery.
ConsumerGetMissingUnsettled(h, ok) ==
  /\ h \in handlers
  /\ h.pc = "get"
  /\ LET orderDetails == GetOrderFromES(h.msg.content.id, ok)
     IN IF orderDetails = "error" THEN NackRequeue(h)
        ELSE IF orderDetails = "null"
        THEN /\ handlers' = (handlers \ {h}) \cup {[h EXCEPT !.pc = "returned"]}
             /\ UNCHANGED queue
        ELSE /\ handlers' = (handlers \ {h}) \cup
                  {[h EXCEPT !.pc = "send", !.orderDetails = store[h.msg.content.id]]}
             /\ UNCHANGED queue
  /\ UNCHANGED <<setupVars, startupVars, readVars, gatewayVars, orderVars, calls, storeVars, published, foreign, emails>>

\* esClient.get settles and processOrderConfirmed resumes: an error is caught
\* (nack with requeue), null is acknowledged and dropped, a document starts
\* sendEmail.
ConsumerGet(h, ok) ==
  /\ h \in handlers
  /\ h.pc = "get"
  /\ LET orderDetails == GetOrderFromES(h.msg.content.id, ok)
     IN IF orderDetails = "error" THEN NackRequeue(h)
        ELSE IF orderDetails = "null" THEN Ack(h)
        ELSE /\ handlers' = (handlers \ {h}) \cup
                  {[h EXCEPT !.pc = "send", !.orderDetails = store[h.msg.content.id]]}
             /\ UNCHANGED queue
  /\ UNCHANGED <<setupVars, startupVars, readVars, gatewayVars, orderVars, calls, storeVars, published, foreign, emails>>

\* Mutant of ConfirmationEmail: the mail is built from the message payload.
ConfirmationEmailFromPayload(payload, orderDetails) ==
  [to |-> payload.customerEmail, id |-> payload.id,
   productName |-> payload.productName, quantity |-> payload.quantity,
   amount |-> payload.amount]

\* sendEmail(orderDetails): recipient, subject and text of the confirmation.
ConfirmationEmail(payload, orderDetails) ==
  [to |-> orderDetails.customerEmail, id |-> orderDetails.id,
   productName |-> orderDetails.productName, quantity |-> orderDetails.quantity,
   amount |-> orderDetails.amount]

\* Mutant of ConsumerSend: the message is acknowledged when sendEmail threw.
ConsumerSendAckOnFailure(h, ok) ==
  /\ h \in handlers
  /\ h.pc = "send"
  /\ IF ok
     THEN emails' = Bump(emails, ConfirmationEmail(h.msg.content, h.orderDetails))
     ELSE UNCHANGED emails
  /\ Ack(h)
  /\ UNCHANGED <<setupVars, startupVars, readVars, gatewayVars, orderVars, calls, storeVars, published, foreign>>

\* Mutant of ConsumerSend: when sendEmail throws the message is rejected
\* without requeue.
ConsumerSendDiscardOnFailure(h, ok) ==
  /\ h \in handlers
  /\ h.pc = "send"
  /\ IF ok
     THEN emails' = Bump(emails, ConfirmationEmail(h.msg.content, h.orderDetails))
     ELSE UNCHANGED emails
  /\ Ack(h)
  /\ UNCHANGED <<setupVars, startupVars, readVars, gatewayVars, orderVars, calls, storeVars, published, foreign>>

\* sendEmail settles: ack on success, nack with requeue when it throws.
ConsumerSend(h, ok) ==
  /\ h \in handlers
  /\ h.pc = "send"
  /\ IF ok
     THEN /\ emails' = Bump(emails, ConfirmationEmail(h.msg.content, h.orderDetails))
          /\ Ack(h)
     ELSE /\ NackRequeue(h)
          /\ UNCHANGED emails
  /\ UNCHANGED <<setupVars, startupVars, readVars, gatewayVars, orderVars, calls, storeVars, published, foreign>>

\* ------------------------------------------------------------ system
Next ==
  \/ \E ok \in BOOLEAN : SetupRabbitMQ(ok)
  \/ \E r \in Reqs, body \in Bodies : Receive(r, body)
  \/ \E c \in DOMAIN calls : ChargeStart(c)
  \/ \E c \in DOMAIN calls, outcome \in GatewayOutcomes : GatewayReply(c, outcome)
  \/ \E c \in DOMAIN calls : BackoffDone(c)
  \/ \E r \in Reqs : PaymentResponse(r)
  \/ \E r \in Reqs : PaymentRpcError(r)
  \/ \E r \in Reqs, ok \in BOOLEAN : IndexDone(r, ok)
  \/ \E r \in Reqs, ok \in BOOLEAN : Publish(r, ok)
  \/ Deliver
  \/ \E h \in handlers, ok \in BOOLEAN : ConsumerGet(h, ok)
  \/ \E h \in handlers, ok \in BOOLEAN : ConsumerSend(h, ok)

Spec == Init /\ [][Next]_vars

\* The run in which the document store and the broker are available: the
\* first connection attempt succeeds, esClient.index and publish succeed.
NextAvail ==
  \/ SetupRabbitMQ(TRUE)
  \/ \E r \in Reqs, body \in Bodies : Receive(r, body)
  \/ \E c \in DOMAIN calls : ChargeStart(c)
  \/ \E c \in DOMAIN calls, outcome \in GatewayOutcomes : GatewayReply(c, outcome)
  \/ \E c \in DOMAIN calls : BackoffDone(c)
  \/ \E r \in Reqs : PaymentResponse(r)
  \/ \E r \in Reqs : PaymentRpcError(r)
  \/ \E r \in Reqs : IndexDone(r, TRUE)
  \/ \E r \in Reqs : Publish(r, TRUE)
  \/ Deliver
  \/ \E h \in handlers, ok \in BOOLEAN : ConsumerGet(h, ok)
  \/ \E h \in handlers, ok \in BOOLEAN : ConsumerSend(h, ok)

SpecAvail == Init /\ [][NextAvail]_vars

\* One step of the payment service on call c: its timers fire and the event
\* loop runs a request that arrived.
CallStep(c) ==
  /\ c \in DOMAIN calls
  /\ \/ ChargeStart(c)
     \/ \E outcome \in GatewayOutcomes : GatewayReply(c, outcome)
     \/ BackoffDone(c)

\* The payment service and its callers: the steps of the system up to the
\* handler's receipt of the Charge response.
NextCharge ==
  \/ \E ok \in BOOLEAN : SetupRabbitMQ(ok)
  \/ \E r \in Reqs, body \in Bodies : Receive(r, body)
  \/ \E c \in DOMAIN calls : ChargeStart(c)
  \/ \E c \in DOMAIN calls, outcome \in GatewayOutcomes : GatewayReply(c, outcome)
  \/ \E c \in DOMAIN calls : BackoffDone(c)
  \/ \E r \in Reqs : PaymentResponse(r)
  \/ \E r \in Reqs : PaymentRpcError(r)

\* The payment service's steps are weakly fair: a timer that was set fires and
\* a request that arrived is served.
FairSpec == Init /\ [][NextCharge]_vars /\ \A c \in Reqs : WF_vars(CallStep(c))

\* The email worker with its producers: the order service in the run in which
\* the gateway approves and the store and the broker are available, and
\* another producer that routes messages to the queue.
NextConsumer ==
  \/ SetupRabbitMQ(TRUE)
  \/ \E r \in Reqs, body \in Bodies : Receive(r, body)
  \/ \E c \in DOMAIN calls : ChargeStart(c)
  \/ \E c \in DOMAIN calls : GatewayReply(c, "approve")
  \/ \E r \in Reqs : PaymentResponse(r)
  \/ \E r \in Reqs : IndexDone(r, TRUE)
  \/ \E r \in Reqs : Publish(r, TRUE)
  \/ \E id \in Reqs : ForeignPublish(id, NoHeader)
  \/ Deliver
  \/ \E h \in handlers : ConsumerGet(h, TRUE)
  \/ \E h \in handlers, ok \in BOOLEAN : ConsumerSend(h, ok)

ConsumerSpec == Init /\ [][NextConsumer]_vars

\* The email worker with producers that set trace headers of every kind, the
\* store failing or answering.  The other producers name the first order id,
\* which is stored or not by the time of the delivery.
NextTrace ==
  \/ SetupRabbitMQ(TRUE)
  \/ \E r \in Reqs, body \in Bodies : Receive(r, body)
  \/ \E c \in DOMAIN calls : ChargeStart(c)
  \/ \E c \in DOMAIN calls : GatewayReply(c, "approve")
  \/ \E r \in Reqs : PaymentResponse(r)
  \/ \E r \in Reqs : IndexDone(r, TRUE)
  \/ \E r \in Reqs : Publish(r, TRUE)
  \/ \E traceparent \in Traceparents : ForeignPublish(1, traceparent)
  \/ Deliver
  \/ \E h \in handlers, ok \in BOOLEAN : ConsumerGet(h, ok)
  \/ \E h \in handlers, ok \in BOOLEAN : ConsumerSend(h, ok)

TraceSpec == Init /\ [][NextTrace]_vars

\* The email worker on every path of its handler: the store answers or
\* fails, sendEmail succeeds or throws, and another producer routes a message
\* for the first order id (stored or not by then) or a payload that is not
\* JSON.
NextSettle ==
  \/ SetupRabbitMQ(TRUE)
  \/ \E r \in Reqs, body \in Bodies : Receive(r, body)
  \/ \E c \in DOMAIN calls : ChargeStart(c)
  \/ \E c \in DOMAIN calls : GatewayReply(c, "approve")
  \/ \E r \in Reqs : PaymentResponse(r)
  \/ \E r \in Reqs : IndexDone(r, TRUE)
  \/ \E r \in Reqs : Publish(r, TRUE)
  \/ ForeignPublish(1, NoHeader)
  \/ PublishUnparseable
  \/ Deliver
  \/ \E h \in handlers, ok \in BOOLEAN : ConsumerGet(h, ok)
  \/ \E h \in handlers, ok \in BOOLEAN : ConsumerSend(h, ok)

SettleSpec == Init /\ [][NextSettle]_vars

\* The steps of the worker that end a handling well: the store answers the
\* get, sendEmail succeeds.
ConsumerGetAnswered == \E h \in handlers : ConsumerGet(h, TRUE)
ConsumerSendDone == \E h \in handlers : ConsumerSend(h, TRUE)

\* The order service and the email worker, the gateway approving; the get of
\* the worker and sendEmail may fail.
NextLive ==
  \/ SetupRabbitMQ(TRUE)
  \/ \E r \in Reqs, body \in Bodies : Receive(r, body)
  \/ \E c \in DOMAIN calls : ChargeStart(c)
  \/ \E c \in DOMAIN calls : GatewayReply(c, "approve")
  \/ \E r \in Reqs : PaymentResponse(r)
  \/ \E r \in Reqs : IndexDone(r, TRUE)
  \/ \E r \in Reqs : Publish(r, TRUE)
  \/ Deliver
  \/ \E h \in handlers, ok \in BOOLEAN : ConsumerGet(h, ok)
  \/ \E h \in handlers, ok \in BOOLEAN : ConsumerSend(h, ok)

\* The broker delivers to the consuming worker whenever it has prefetch room;
\* the store does not fail every get for ever and sendEmail does not throw
\* for ever.
LiveSpec ==
  /\ Init
  /\ [][NextLive]_vars
  /\ WF_vars(Deliver)
  /\ SF_vars(ConsumerGetAnswered)
  /\ SF_vars(ConsumerSendDone)

\* One step of the email worker and of the broker's delivery to it.
ConsumerStep ==
  \/ Deliver
  \/ \E h \in handlers : ConsumerGet(h, TRUE)
  \/ \E h \in handlers : ConsumerSend(h, FALSE)

\* The run in which sendEmail throws on every delivery.
NextRedelivery ==
  \/ SetupRabbitMQ(TRUE)
  \/ \E r \in Reqs, body \in Bodies : Receive(r, body)
  \/ \E c \in DOMAIN calls : ChargeStart(c)
  \/ \E c \in DOMAIN calls : GatewayReply(c, "approve")
  \/ \E r \in Reqs : PaymentResponse(r)
  \/ \E r \in Reqs : IndexDone(r, TRUE)
  \/ \E r \in Reqs : Publish(r, TRUE)
  \/ Deliver
  \/ \E h \in handlers : ConsumerGet(h, TRUE)
  \/ \E h \in handlers : ConsumerSend(h, FALSE)

\* The broker delivers a queued message to a consumer with prefetch room, and
\* the worker's awaits (esClient.get, the 50 ms timer of sendEmail) settle.
RedeliverySpec == Init /\ [][NextRedelivery]_vars /\ WF_vars(ConsumerStep)

\* The start of the worker: its connection loop, and the broker with
\* messages other producers routed to the (durable) queue meanwhile.
NextStartup ==
  \/ \E ok \in BOOLEAN : ConnectAttempt(ok)
  \/ ConnectRetryTimer
  \/ \E ok \in BOOLEAN : StartConsuming(ok)
  \/ \E id \in Reqs : ForeignPublish(id, NoHeader)
  \/ Deliver
  \/ \E h \in handlers : ConsumerGet(h, TRUE)

StartupSpec == InitStartup /\ [][NextStartup]_vars

\* The checkout path: the gateway, the catalog, the order service and the
\* payment service.
NextCheckout ==
  \/ \E ok \in BOOLEAN : SetupRabbitMQ(ok)
  \/ \E k \in Cks, req \in Checkouts : Checkout(k, req)
  \/ \E k \in Cks, ok \in BOOLEAN : CatalogReply(k, ok)
  \/ \E k \in Cks, r \in Reqs : PostOrder(k, r)
  \/ \E k \in Cks : PostOrderRefused(k)
  \/ \E c \in DOMAIN calls : ChargeStart(c)
  \/ \E c \in DOMAIN calls, outcome \in GatewayOutcomes : GatewayReply(c, outcome)
  \/ \E c \in DOMAIN calls : BackoffDone(c)
  \/ \E r \in Reqs : PaymentResponse(r)
  \/ \E r \in Reqs : PaymentRpcError(r)
  \/ \E r \in Reqs, ok \in BOOLEAN : IndexDone(r, ok)
  \/ \E r \in Reqs, ok \in BOOLEAN : Publish(r, ok)
  \/ \E k \in Cks : CheckoutResponse(k)

CheckoutSpec == Init /\ [][NextCheckout]_vars

\* The order service with its readers: orders are created (the gateway
\* approves or declines, the store and the broker are available) while
\* clients read them.
NextRead ==
  \/ SetupRabbitMQ(TRUE)
  \/ \E r \in Reqs, body \in Bodies : Receive(r, body)
  \/ \E c \in DOMAIN calls : ChargeStart(c)
  \/ \E c \in DOMAIN calls, outcome \in {"approve", "decline"} : GatewayReply(c, outcome)
  \/ \E c \in DOMAIN calls : BackoffDone(c)
  \/ \E r \in Reqs : PaymentResponse(r)
  \/ \E r \in Reqs : IndexDone(r, TRUE)
  \/ \E r \in Reqs : Publish(r, TRUE)
  \/ \E id \in Reqs, ok \in BOOLEAN : GetOrderRequest(id, ok)

ReadSpec == Init /\ [][NextRead]_vars

\* ------------------------------------------------------------ claims
Terminal == {"confirmed", "payment_failed"}
Accepted(r) == order[r].id # NoId
CallFor(r) == calls[callOf[r]]
CallsFor(id) == {c \in DOMAIN calls : calls[c].order_id = id}
Answered(c) == calls[c].state \in {"returned", "closed"}
ApprovedFirst(r) ==
  /\ callOf[r] # NoId
  /\ CallFor(r).result.status = "APPROVED"
  /\ Len(CallFor(r).spanTxns) = 1
NotApproved(r) ==
  /\ callOf[r] # NoId
  /\ CallFor(r).result.status \in {"DECLINED", "ERROR"}

\* C1: with the store and the broker available, a request that passed
\* validation and whose Charge was approved on the first attempt ends with the
\* order confirmed, exactly one store write under its orderId and exactly one
\* order.confirmed event.
C1_ApprovedFirstAttempt ==
  \A r \in Reqs :
    (pc[r] = "done" /\ ApprovedFirst(r)) =>
      /\ order[r].status = "confirmed"
      /\ order[r].id \in DOMAIN store
      /\ store[order[r].id] = order[r]
      /\ Count(writes, order[r].id) = 1
      /\ Count(published, order[r].id) = 1

C1_Witness ==
  \E r \in Reqs :
    /\ pc[r] = "done" /\ ApprovedFirst(r)
    /\ resp[r].code = 201
    /\ Count(published, order[r].id) = 1

\* C2 as stated: every request whose Charge result is not Approved ends with
\* status payment_failed, exactly one store write and no confirmation event.
C2_Original ==
  \A r \in Reqs :
    (pc[r] = "done" /\ NotApproved(r)) =>
      /\ order[r].status = "payment_failed"
      /\ Count(writes, order[r].id) = 1
      /\ Count(published, order[r].id) = 0

\* C2 amended: every request whose Charge result is not Approved ends with
\* status payment_failed and no confirmation event, and with exactly one store
\* write unless that write failed (then none is made and the answer is 500).
C2_FailedPayment ==
  \A r \in Reqs :
    (pc[r] = "done" /\ NotApproved(r)) =>
      /\ order[r].status = "payment_failed"
      /\ Count(published, order[r].id) = 0
      /\ IF resp[r].caught = "index"
         THEN Count(writes, order[r].id) = 0 /\ resp[r].code = 500
         ELSE /\ Count(writes, order[r].id) = 1
              /\ store[order[r].id].status = "payment_failed"

C2_Witness ==
  \E r \in Reqs :
    /\ pc[r] = "done" /\ NotApproved(r)
    /\ CallFor(r).result.status = "ERROR"
    /\ resp[r].code = 400
    /\ Count(writes, order[r].id) = 1

\* C3: the status of an order changes only pending -> confirmed or
\* pending -> payment_failed (after its creation as pending); once it is
\* terminal it never changes, no payment call is started for the order, and
\* the only store write and publish that follow are the single ones of that
\* terminal transition; once the handler has answered, nothing is started.
C3_TerminalStatus ==
  [][\A r \in Reqs :
       LET o == order[r]
           id == order[r].id
       IN /\ order'[r].status # o.status =>
               <<o.status, order'[r].status>> \in
                  {<<"none", "pending">>, <<"pending", "confirmed">>,
                   <<"pending", "payment_failed">>}
          /\ o.status \in Terminal =>
               /\ order'[r] = o
               /\ chargeCalls'[r] = chargeCalls[r]
               /\ {c \in DOMAIN calls' : calls'[c].order_id = id} = CallsFor(id)
               /\ Count(writes', id) # Count(writes, id) =>
                    /\ Count(writes, id) = 0
                    /\ store'[id] = o
               /\ Count(published', id) # Count(published, id) =>
                    /\ Count(published, id) = 0
                    /\ o.status = "confirmed"
                    /\ Count(writes, id) = 1
               /\ id \in DOMAIN store => store'[id].status = store[id].status
          /\ pc[r] = "done" =>
               /\ pc'[r] = "done" /\ order'[r] = o
               /\ chargeCalls'[r] = chargeCalls[r]
               /\ Accepted(r) =>
                    /\ Count(writes', id) = Count(writes, id)
                    /\ Count(published', id) = Count(published, id)
    ]_vars

C3_Witness ==
  /\ \E r \in Reqs : pc[r] = "done" /\ order[r].status = "confirmed"
                     /\ Count(published, order[r].id) = 1
  /\ \E r \in Reqs : pc[r] = "done" /\ order[r].status = "payment_failed"
                     /\ Count(writes, order[r].id) = 1

\* C4: an accepted request makes exactly one Charge call for its orderId, and
\* that call has been answered to the handler before the order is written or
\* published; whatever the result, Charge is not called again.
C4_OneCharge ==
  \A r \in Reqs :
    Accepted(r) =>
      /\ chargeCalls[r] = 1
      /\ Cardinality(CallsFor(order[r].id)) = 1
      /\ callOf[r] \in CallsFor(order[r].id)
      /\ ( \/ pc[r] \in {"awaitIndex", "publishing"}
           \/ Count(writes, order[r].id) > 0
           \/ Count(published, order[r].id) > 0 ) => CallFor(r).state = "closed"

C4_Witness ==
  /\ \E r \in Reqs : pc[r] = "done" /\ Accepted(r) /\ resp[r].code = 400
                     /\ CallFor(r).result.status = "ERROR"
  /\ \E r \in Reqs : pc[r] = "done" /\ Accepted(r) /\ resp[r].caught = "rpc"

\* C5: an order id is written to the store at most once, with a terminal
\* status, and a stored document is never changed or removed afterwards
\* (neither by the order service nor by the email worker).
C5_WrittenOnce ==
  /\ [](\A id \in DOMAIN writes : writes[id] <= 1)
  /\ [](\A id \in DOMAIN store :
          /\ store[id].status \in Terminal
          /\ store[id].id = id
          /\ Count(writes, id) = 1)
  /\ [][\A id \in DOMAIN store : id \in DOMAIN store' /\ store'[id] = store[id]]_vars

C5_Witness ==
  /\ Cardinality(DOMAIN store) = 2
  /\ \E e \in DOMAIN emails : e.id \in DOMAIN store
  /\ \A r \in Reqs : pc[r] = "done"

\* The publish of r's confirmed and stored order failed.
PublishFailed(r) ==
  /\ pc[r] = "done"
  /\ order[r].status = "confirmed"
  /\ Count(writes, order[r].id) = 1
  /\ Count(published, order[r].id) = 0

\* C6: when the publish fails after the approved order was stored, the stored
\* order stays confirmed: nothing writes or removes it afterwards and the
\* order service does not publish again.
C6_PublishFailureKeepsOrder ==
  /\ [](\A r \in Reqs :
          PublishFailed(r) =>
            /\ order[r].id \in DOMAIN store
            /\ store[order[r].id] = order[r])
  /\ [][\A r \in Reqs :
          PublishFailed(r) =>
            /\ PublishFailed(r)'
            /\ order[r].id \in DOMAIN store'
            /\ store'[order[r].id] = store[order[r].id]]_vars

C6_Witness ==
  \E r \in Reqs :
    /\ PublishFailed(r)
    /\ store[order[r].id].status = "confirmed"
    /\ resp[r].code \in {201, 500}

\* C7: a Charge call invokes the gateway at most 3 times, and at least once
\* before it answers.
C7_AttemptBounds ==
  \A c \in DOMAIN calls :
    /\ Len(calls[c].spanTxns) <= 3
    /\ Answered(c) => Len(calls[c].spanTxns) >= 1

C7_Witness ==
  /\ \E c \in DOMAIN calls : Answered(c) /\ Len(calls[c].spanTxns) = 3
                             /\ calls[c].result.status = "APPROVED"
  /\ \E c \in DOMAIN calls : Answered(c) /\ Len(calls[c].spanTxns) = 1

\* C8: the transaction id of a Charge call is set before its first attempt,
\* every attempt of the call carries it, and two calls never have the same.
C8_TransactionId ==
  /\ \A c \in DOMAIN calls :
       calls[c].state \notin {"requested", "failed"} =>
         /\ calls[c].txn # NoId
         /\ \A i \in DOMAIN calls[c].spanTxns : calls[c].spanTxns[i] = calls[c].txn
  /\ \A c, d \in DOMAIN calls :
       (c # d /\ calls[c].txn # NoId /\ calls[d].txn # NoId) =>
         calls[c].txn # calls[d].txn

C8_Witness ==
  \E c, d \in DOMAIN calls :
    /\ c # d
    /\ Len(calls[c].spanTxns) = 3
    /\ Len(calls[d].spanTxns) >= 2

\* C9: every Charge call that the payment service started answers, whatever
\* the gateway does (it may decline or throw on every attempt).
C9_ChargeTerminates ==
  \A c \in Reqs :
    (c \in DOMAIN calls /\ calls[c].state = "attempting")
      ~> (c \in DOMAIN calls /\ Answered(c))

C9_Witness ==
  \E c \in DOMAIN calls :
    /\ calls[c].state = "returned"
    /\ calls[c].result.status = "ERROR"
    /\ Len(calls[c].spanTxns) = 3

\* C10: every Charge response carries the transaction id generated for the
\* call and a status that is APPROVED, DECLINED or ERROR.
C10_ResponseCarriesTransactionId ==
  \A c \in DOMAIN calls :
    Answered(c) =>
      /\ calls[c].result.status \in {"APPROVED", "DECLINED", "ERROR"}
      /\ calls[c].txn # NoId
      /\ calls[c].result.transaction_id = calls[c].txn

\* The message of handler h, as the broker requeues it.
Requeued(h) == [h.msg EXCEPT !.redelivered = TRUE]

\* C11: when the store answers "not found" for the order id of the message
\* being handled, the message is acknowledged (it leaves the unacked set and
\* is not put back on the queue) and no email is sent; a handler whose order
\* is absent never reaches sendEmail.
C11_MissingOrderAcked ==
  [][\A h \in handlers :
       (h.pc = "get" /\ h.msg.content.id \notin DOMAIN store) =>
         /\ ConsumerGet(h, TRUE) =>
              /\ handlers' = handlers \ {h}
              /\ queue' = queue
              /\ emails' = emails
         /\ [h EXCEPT !.pc = "send"] \notin handlers'
         /\ h \notin handlers' => emails' = emails
    ]_vars

C11_Witness ==
  /\ foreign = 1
  /\ published = << >>
  /\ queue = << >>
  /\ handlers = {}
  /\ emails = << >>

\* C12: when sendEmail throws, the message is nacked with requeue and not
\* acked: it is back at the head of the queue, marked redelivered, and no
\* email is recorded; the broker then delivers that same message again and a
\* handler runs for it.
C12_SendFailureRequeues ==
  /\ [][\A h \in handlers :
          (h.pc = "send" /\ ConsumerSend(h, FALSE)) =>
            /\ handlers' = handlers \ {h}
            /\ queue' = <<Requeued(h)>> \o queue
            /\ emails' = emails
       ]_vars
  /\ []((handlers = {} /\ queue # << >>) => ENABLED Deliver)
  /\ [][(handlers = {} /\ queue # << >> /\ handlers' # {}) =>
          handlers' = {NewHandler(Head(queue))}]_vars

C12_Witness ==
  \E h \in handlers :
    /\ h.pc = "get"
    /\ h.msg.redelivered
    /\ h.msg.content.id \in DOMAIN store

\* C13: when the order is found and sendEmail succeeds the message is
\* acknowledged, and a message whose order is found is acknowledged only in
\* the step in which its email is recorded as sent.
C13_AckAfterSend ==
  [][\A h \in handlers :
       /\ (h.pc = "send" /\ ConsumerSend(h, TRUE)) =>
            /\ handlers' = handlers \ {h}
            /\ queue' = queue
       /\ ( /\ h.msg.content.id \in DOMAIN store
            /\ h \notin handlers'
            /\ [h EXCEPT !.pc = "send", !.orderDetails = store[h.msg.content.id]]
                 \notin handlers'
            /\ queue' = queue ) =>
            /\ h.pc = "send"
            /\ Count(emails', ConfirmationEmail(h.msg.content, h.orderDetails))
                 = Count(emails, ConfirmationEmail(h.msg.content, h.orderDetails)) + 1
    ]_vars

C13_Witness ==
  /\ \E e \in DOMAIN emails : emails[e] = 1 /\ e.id \in DOMAIN published
  /\ handlers = {}
  /\ queue = << >>
  /\ foreign = 0

\* C14: when sendEmail throws on every delivery, no message whose order is
\* stored ever leaves the broker (it is neither acknowledged nor discarded):
\* every handling ends with the message back at the head of the queue, and it
\* is handled again and again without end.
C14_UnboundedRedelivery ==
  /\ [][\A h \in handlers :
          (\A g \in handlers' : g.msg # h.msg) =>
            queue' = <<Requeued(h)>> \o queue]_vars
  /\ []((\E h \in handlers : h.pc = "send") =>
          []<>(\E h \in handlers : h.pc = "send" /\ h.msg.redelivered))
  /\ [](emails = << >>)

C14_Witness ==
  /\ \E h \in handlers : h.pc = "send" /\ h.msg.redelivered
  /\ queue # << >>

\* C15: at most one delivery is unacknowledged at any time, and a handler
\* starts for a message only when no other handler is running.
C15_OneInFlight ==
  /\ [](Cardinality(handlers) <= prefetch)
  /\ [][\A h \in handlers' : (h \notin handlers /\ h.pc = "get") => handlers = {}]_vars

C15_Witness ==
  /\ \E h \in handlers : h.pc = "send"
  /\ Len(queue) >= 1

\* C16: every confirmation sent carries the recipient, product, quantity and
\* amount of the stored order with the id of the message, whatever the other
\* fields of the payload are.
C16_EmailFromStore ==
  \A e \in DOMAIN emails :
    /\ e.id \in DOMAIN store
    /\ e.to = store[e.id].customerEmail
    /\ e.productName = store[e.id].productName
    /\ e.quantity = store[e.id].quantity
    /\ e.amount = store[e.id].amount

C16_Witness ==
  /\ foreign = 1
  /\ \E e \in DOMAIN emails : emails[e] = 2
  /\ handlers = {}
  /\ queue = << >>

\* A checkout request with a missing or invalid field.
InvalidCheckout(c) ==
  \/ c.productId = ""
  \/ c.quantity <= 0
  \/ c.customerEmail = ""

\* C17: a checkout whose productId, quantity or customerEmail is missing or
\* invalid (quantity <= 0 included) fails fast: its handler ends at the
\* validation with a client error and never reaches the order service (so no
\* Charge call, no store write and no publish is made for it).
C17_InvalidRequestRejected ==
  \A k \in Cks :
    (gpc[k] # "new" /\ InvalidCheckout(checkout[k])) =>
      /\ gpc[k] = "done"
      /\ gresp[k].code \in 400..499
      /\ orderOf[k] = NoId

\* C18: when the payment of a checkout is not approved (and the order was
\* stored), the response to the checkout is a 4xx that carries status
\* payment_failed, and GetOrder of its order id returns the stored order with
\* status payment_failed.
C18_DeclinedCheckout ==
  \A k \in Cks :
    (gpc[k] = "done" /\ orderOf[k] # NoId /\ NotApproved(orderOf[k])
       /\ resp[orderOf[k]].code = 400) =>
      /\ gresp[k].code \in 400..499
      /\ gresp[k].status = "payment_failed"
      /\ GetOrder(order[orderOf[k]].id, TRUE).code = 200
      /\ GetOrder(order[orderOf[k]].id, TRUE).body.status = "payment_failed"

\* C19: every 201 of the order service carries the id the order was
\* generated and stored under and its status, and every 201 of the gateway
\* built from it carries that id as orderId and that status.
C19_CreatedCarriesOrderId ==
  /\ \A r \in Reqs :
       resp[r].code = 201 =>
         /\ order[r].id # NoId
         /\ order[r].id \in {resp[r].orderId, resp[r].id}
         /\ order[r].id \in DOMAIN store
         /\ resp[r].status = order[r].status
  /\ \A k \in Cks :
       gresp[k].code = 201 =>
         /\ gresp[k].orderId # NoId
         /\ gresp[k].orderId = order[orderOf[k]].id
         /\ gresp[k].orderId \in DOMAIN store
         /\ gresp[k].status = order[orderOf[k]].status

\* C20: for every checkout that reached the order service, the amount of the
\* Charge call, the amount of the order (as held and as stored) and the amount
\* of the checkout's 201 all equal catalog price x quantity.
C20_AmountIsPriceTimesQuantity ==
  \A k \in Cks :
    (orderOf[k] # NoId /\ Accepted(orderOf[k])) =>
      LET r == orderOf[k]
          amount == Catalog[checkout[k].productId].price * checkout[k].quantity
      IN /\ CallFor(r).amount = amount
         /\ order[r].amount = amount
         /\ order[r].id \in DOMAIN store => store[order[r].id].amount = amount
         /\ gresp[k].code = 201 => gresp[k].amount = amount

C20_Witness ==
  \E k \in Cks :
    /\ gresp[k].code = 201
    /\ checkout[k].quantity = 2
    /\ CallFor(orderOf[k]).state = "closed"
    /\ CallFor(orderOf[k]).amount = 259998
    /\ store[order[orderOf[k]].id].amount = 259998

\* The esClient.index call of request r failed: the handler is past its await
\* of the store (the order took its terminal status) and nothing was written.
IndexFailed(r) ==
  /\ Accepted(r)
  /\ order[r].status \in Terminal
  /\ pc[r] \in {"publishing", "done"}
  /\ Count(writes, order[r].id) = 0

\* C22: when the store write of a request fails (the order being confirmed or
\* payment_failed), the request ends with a 500, no write is ever made for
\* its order id (the write is not retried: the order is not stored) and no
\* confirmation event is published for it.
C22_StoreWriteFailure ==
  \A r \in Reqs :
    IndexFailed(r) =>
      /\ pc[r] = "done"
      /\ resp[r].code = 500
      /\ resp[r].caught = "index"
      /\ order[r].id \notin DOMAIN store
      /\ Count(published, order[r].id) = 0
      /\ \A i \in DOMAIN queue : queue[i].content.id # order[r].id

C22_Witness ==
  /\ \E r \in Reqs : IndexFailed(r) /\ order[r].status = "confirmed"
  /\ \E r \in Reqs : IndexFailed(r) /\ order[r].status = "payment_failed"
  /\ store = << >>

\* What request r's own Charge result makes of its order: the terminal status
\* and the number of confirmation events.
StatusFor(result) == IF result.status = "APPROVED" THEN "confirmed" ELSE "payment_failed"
EventsFor(result) == IF result.status = "APPROVED" THEN 1 ELSE 0

C28_DeclineRetried ==
  [][\A c \in DOMAIN calls :
       (calls[c].state = "attempting" /\ GatewayReply(c, "decline")) =>
         /\ calls'[c].lastError = AttemptError("decline")
         /\ IF calls[c].attempt + 1 < maxRetries
            THEN calls'[c].state = "backoff"
            ELSE /\ calls'[c].state = "returned"
                 /\ calls'[c].result.status = "ERROR"
    ]_vars

\* C29: a decline of the gateway ends the Charge call at once: the call
\* returns Declined right after that attempt, without a further attempt, and
\* Declined is not the status of a call whose attempts were exhausted.
C29_DeclineTerminal ==
  [][\A c \in DOMAIN calls :
       (calls[c].state = "attempting" /\ GatewayReply(c, "decline")) =>
         /\ calls'[c].state = "returned"
         /\ calls'[c].result.status = "DECLINED"
         /\ calls'[c].spanTxns = calls[c].spanTxns
    ]_vars

\* C30: a Charge call waits only between attempts: it is in a backoff wait
\* only while attempts remain, and a call that exhausted its 3 attempts made
\* exactly 2 waits.
C30_BackoffOnlyBetweenAttempts ==
  \A c \in DOMAIN calls :
    /\ calls[c].state = "backoff" => calls[c].attempt + 1 < maxRetries
    /\ ( /\ calls[c].state = "returned"
         /\ calls[c].result.status = "ERROR"
         /\ Len(calls[c].spanTxns) = maxRetries ) =>
         Len(calls[c].waits) = maxRetries - 1

\* C21: GET /order/:id changes nothing but the response the client holds (no
\* store write, no publish, no Charge call, no order handler moves); it
\* answers 200 with the stored document when the id is stored, 404 when the
\* store reports it missing, and 500 on any other store error.
C21_GetOrderPureRead ==
  [][/\ fetched' # fetched =>
          UNCHANGED <<store, writes, published, queue, calls, chargeCalls,
                      pc, order, resp, handlers, emails>>
     /\ \A id \in Reqs, ok \in BOOLEAN :
       GetOrderRequest(id, ok) =>
         /\ fetched'.id = id
         /\ fetched'.code = IF ~ok THEN 500
                            ELSE IF id \in DOMAIN store THEN 200 ELSE 404
         /\ fetched'.code = 200 => fetched'.body = store[id]
         /\ fetched'.code # 200 => fetched'.body = NoOrder
    ]_vars

\* Reads of a stored failed order, of a missing order and a failed read have
\* all been answered while another request is in flight.
C21_Witness ==
  /\ fetched.code = 200
  /\ fetched.body.status = "payment_failed"
  /\ fetched.body.id = fetched.id
  /\ \E r \in Reqs : pc[r] = "awaitPayment"

\* C24: the worker makes at most 10 connection attempts, with one 2 s wait
\* between two consecutive attempts and none elsewhere; after the 10th failed
\* attempt it retries no more and the process exits; it consumes (a handler
\* runs, a message leaves the queue) only once an attempt succeeded and the
\* topology was declared.
C24_StartupRetries ==
  /\ worker.attempts <= 10
  /\ \A i \in DOMAIN worker.waits : worker.waits[i] = 2000
  /\ Len(worker.waits) =
       IF worker.state \in {"connecting", "waiting"}
       THEN worker.attempts ELSE worker.attempts - 1
  /\ worker.state = "waiting" => worker.attempts < 10
  /\ ~worker.connected => worker.retryCount = worker.attempts
  /\ (worker.attempts = 10 /\ ~worker.connected) => worker.state = "exited"
  /\ (worker.state = "exited" /\ ~worker.connected) => worker.attempts = 10
  /\ worker.state = "consuming" => worker.connected
  /\ (handlers # {} \/ foreign > Len(queue)) => worker.state = "consuming"

C24_Witness ==
  /\ worker.state = "exited"
  /\ ~worker.connected
  /\ worker.attempts = 10
  /\ Len(worker.waits) = 9
  /\ queue # << >>

\* The header is absent or does not split into exactly 4 parts.
Malformed(traceparent) ==
  \/ traceparent = NoHeader
  \/ traceparent = <<"bad", "-", "header">>
  \/ traceparent = <<"00", "-", "4bf9", "-", "00f0", "-", "01", "-", "x">>

\* C25: a delivered message whose traceparent header is absent or does not
\* split into exactly 4 parts gets a handler that runs the whole algorithm:
\* it fetches the order, and then acknowledges a missing order, requeues on a
\* store error, sends the email of a stored order and acknowledges, or
\* requeues when the send fails, as for any message; its span has no link.
C25_MalformedHeaderProcessed ==
  /\ [](\A h \in handlers : Malformed(h.msg.traceparent) => h.span.links = << >>)
  /\ [][(queue # << >> /\ Malformed(Head(queue).traceparent) /\ queue' = Tail(queue)) =>
          \E h \in handlers' : h.msg = Head(queue) /\ h.pc = "get"]_vars
  /\ [][\A h \in handlers :
          Malformed(h.msg.traceparent) =>
            /\ ConsumerGet(h, FALSE) =>
                 handlers' = handlers \ {h} /\ queue' = <<Requeued(h)>> \o queue
            /\ ConsumerGet(h, TRUE) =>
                 IF h.msg.content.id \in DOMAIN store
                 THEN /\ handlers' = (handlers \ {h}) \cup
                           {[h EXCEPT !.pc = "send",
                                      !.orderDetails = store[h.msg.content.id]]}
                      /\ queue' = queue
                 ELSE handlers' = handlers \ {h} /\ queue' = queue
            /\ ConsumerSend(h, TRUE) =>
                 /\ handlers' = handlers \ {h} /\ queue' = queue
                 /\ Count(emails', ConfirmationEmail(h.msg.content, h.orderDetails))
                      = Count(emails, ConfirmationEmail(h.msg.content, h.orderDetails)) + 1
            /\ ConsumerSend(h, FALSE) =>
                 /\ handlers' = handlers \ {h} /\ queue' = <<Requeued(h)>> \o queue
                 /\ emails' = emails
       ]_vars

\* A message with the header "bad-header", requeued once, has its email sent
\* (the handler is at sendEmail and a confirmation of that order was sent).
C25_Witness ==
  \E h \in handlers :
    /\ h.msg.traceparent = <<"bad", "-", "header">>
    /\ h.msg.redelivered
    /\ h.pc = "send"
    /\ \E e \in DOMAIN emails : e.id = h.msg.content.id

\* The trace and span ids that publishers put in well-formed headers.
PublisherSpans ==
  {<<TraceIdOf(r), SpanIdOf(r)>> : r \in Reqs} \cup {<<"4bf9", "00f0">>}

\* C26: the handling span of a message with a well-formed traceparent header
\* is a root span (no parent) of a new trace, not of the trace of the header,
\* and has exactly one link, to the trace id and span id of the header.
C26_FreshRootWithLink ==
  \A h \in handlers :
    \A p \in PublisherSpans :
      h.msg.traceparent = Traceparent(p[1], p[2]) =>
        /\ h.span.parentSpanId = ""
        /\ h.span.traceId # p[1]
        /\ Len(h.span.links) = 1
        /\ h.span.links[1].traceId = p[1]
        /\ h.span.links[1].spanId = p[2]
        /\ h.span.links[1].isRemote

\* The confirmation published by the order service (otel build) for the
\* second request is being handled.
C26_Witness ==
  \E h \in handlers :
    /\ h.msg.traceparent = Traceparent(TraceIdOf(2), SpanIdOf(2))
    /\ h.msg.content.id \in DOMAIN published
    /\ h.pc = "send"

\* C27: every confirmation event of the order service is queued with a
\* traceparent header in the four-part form, carrying the trace id and span
\* id of the publishing request.
C27_EventCarriesTraceparent ==
  \A i \in DOMAIN queue :
    /\ Len(Split(queue[i].traceparent, "-")) = 4
    /\ \E r \in Reqs :
         /\ order[r].id = queue[i].content.id
         /\ queue[i].traceparent = Traceparent(TraceIdOf(r), SpanIdOf(r))

\* C31: when the gateway approves an attempt (the 1st, 2nd or 3rd), the
\* Charge call returns Approved in that step, with its transaction id; no
\* wait is started, and the answered call makes no further attempt and no
\* further wait: an approved call made one wait per earlier (failed) attempt.
C31_ApprovedReturnsAtOnce ==
  /\ [][\A c \in DOMAIN calls :
          (calls[c].state = "attempting" /\ GatewayReply(c, "approve")) =>
            /\ calls'[c].state = "returned"
            /\ calls'[c].result.status = "APPROVED"
            /\ calls'[c].result.transaction_id = calls[c].txn
            /\ calls'[c].spanTxns = calls[c].spanTxns
            /\ calls'[c].waits = calls[c].waits
       ]_vars
  /\ [][\A c \in DOMAIN calls :
          (Answered(c) /\ calls[c].result.status = "APPROVED") =>
            /\ calls'[c].state \in {"returned", "closed"}
            /\ calls'[c].result = calls[c].result
            /\ calls'[c].spanTxns = calls[c].spanTxns
            /\ Len(calls'[c].waits) <= Len(calls[c].waits)
       ]_vars
  /\ [](\A c \in DOMAIN calls :
          (calls[c].state = "returned" /\ calls[c].result.status = "APPROVED") =>
            Len(calls[c].waits) = Len(calls[c].spanTxns) - 1)

\* One call was approved on its third attempt and another on its second.
C31_Witness ==
  \E c, d \in DOMAIN calls :
    /\ calls[c].state = "returned" /\ calls[c].result.status = "APPROVED"
    /\ Len(calls[c].spanTxns) = 3 /\ Len(calls[c].waits) = 2
    /\ calls[d].state = "returned" /\ calls[d].result.status = "APPROVED"
    /\ Len(calls[d].spanTxns) = 2 /\ Len(calls[d].waits) = 1

\* C32: an error thrown by the gateway is caught and counted as a failed
\* attempt: while attempts remain the call waits and then calls the gateway
\* again; after the third attempt the call returns status ERROR with a
\* message.  The error never ends the call otherwise: a call fails only
\* before its first attempt, and an ERROR is returned only after 3 attempts.
C32_GatewayErrorRetried ==
  /\ [][\A c \in DOMAIN calls :
          (calls[c].state = "attempting" /\ GatewayReply(c, "throw")) =>
            /\ calls'[c].lastError = "Payment gateway connection timeout"
            /\ calls'[c].state \in {"backoff", "returned"}
            /\ calls[c].attempt + 1 < 3 => calls'[c].state = "backoff"
            /\ calls'[c].state = "returned" =>
                 /\ calls'[c].result.status = "ERROR"
                 /\ calls'[c].result.message # ""
       ]_vars
  /\ [][\A c \in DOMAIN calls :
          (calls[c].state = "backoff" /\ BackoffDone(c)) =>
            IF calls[c].attempt + 1 < 3
            THEN /\ calls'[c].state = "attempting"
                 /\ Len(calls'[c].spanTxns) = Len(calls[c].spanTxns) + 1
            ELSE /\ calls'[c].state = "returned"
                 /\ calls'[c].result.status = "ERROR"
                 /\ calls'[c].result.message # ""
       ]_vars
  /\ [](\A c \in DOMAIN calls :
          /\ calls[c].state = "failed" => calls[c].spanTxns = << >>
          /\ (Answered(c) /\ calls[c].result.status = "ERROR") =>
               /\ Len(calls[c].spanTxns) = 3
               /\ calls[c].result.message # "")

\* The gateway threw on all 3 attempts of a call (in the otel build only a
\* thrown error is retried) and the call returned ERROR.
C32_Witness ==
  \E c \in DOMAIN calls :
    /\ paymentImpl = "otel"
    /\ calls[c].state = "returned"
    /\ calls[c].result.status = "ERROR"
    /\ calls[c].result.message # ""
    /\ calls[c].lastError = "Payment gateway connection timeout"
    /\ Len(calls[c].spanTxns) = 3

\* The delays of the waits of a call, in order: 100 * 2^(k-1) ms after the
\* k-th failed attempt in the elastic build, 100 * k ms in the otel build.
Delays(impl) == IF impl = "elastic" THEN <<100, 200, 400>> ELSE <<100, 200, 300>>

\* C33: the delay of the wait that follows the k-th failed attempt of a call
\* is fixed by k and the build, whatever failed and whatever the amount, and
\* it grows with k.
C33_BackoffGrows ==
  \A c \in DOMAIN calls :
    /\ Len(calls[c].waits) <= 3
    /\ \A k \in DOMAIN calls[c].waits : calls[c].waits[k] = Delays(paymentImpl)[k]
    /\ \A j, k \in DOMAIN calls[c].waits : j < k => calls[c].waits[j] < calls[c].waits[k]

\* Two calls each waited 100 and 200 ms, one after declines and one after
\* errors of the gateway.
C33_Witness ==
  \E c, d \in DOMAIN calls :
    /\ calls[c].waits = <<100, 200>>
    /\ calls[d].waits = <<100, 200>>
    /\ calls[c].lastError = "Payment declined by gateway"
    /\ calls[d].lastError = "Payment gateway connection timeout"

\* The messages at the broker and with the worker.
Messages == {queue[i] : i \in DOMAIN queue} \cup {h.msg : h \in handlers}

\* C34: the order is persisted before its event is published: at the publish
\* the store holds the order of the event's id with status confirmed, and
\* keeps it; so the worker finds the order of every event the order service
\* published and never takes the order-not-found branch for it.
C34_PersistBeforePublish ==
  /\ [](\A id \in DOMAIN published :
          /\ id \in DOMAIN store
          /\ store[id].id = id
          /\ store[id].status = "confirmed")
  /\ [][\A r \in Reqs :
          Count(published', order[r].id) > Count(published, order[r].id) =>
            /\ order[r].id \in DOMAIN store
            /\ store[order[r].id].status = "confirmed"
            /\ store' = store]_vars
  /\ [](\A m \in Messages :
          /\ m.content.id \in DOMAIN published
          /\ GetOrderFromES(m.content.id, TRUE) = "found")
  /\ [][\A h \in handlers :
          ConsumerGet(h, TRUE) =>
            \E g \in handlers' :
              g.msg = h.msg /\ g.pc = "send" /\ g.orderDetails.status = "confirmed"]_vars

\* The worker read the order of a published event and is sending its email
\* while the other request's event waits in the queue.
C34_Witness ==
  /\ \E h \in handlers :
       /\ h.pc = "send"
       /\ h.msg.content.id \in DOMAIN published
       /\ h.orderDetails = store[h.msg.content.id]
  /\ \E i \in DOMAIN queue : queue[i].content.id \in DOMAIN published

\* C35: a request answered with a 5xx has no order stored with status
\* confirmed.
C35_NoConfirmedOrderOnServerError ==
  \A r \in Reqs :
    (pc[r] = "done" /\ resp[r].code >= 500) =>
      ~(order[r].id \in DOMAIN store /\ store[order[r].id].status = "confirmed")

\* C37: where only the order service publishes, every confirmation sent is
\* for an order that is stored with status confirmed and was published; no
\* message and no email exists for an order that failed or was not stored.
C37_EmailsForConfirmedOrders ==
  /\ \A e \in DOMAIN emails :
       /\ e.id \in DOMAIN store
       /\ store[e.id].status = "confirmed"
       /\ e.id \in DOMAIN published
  /\ \A r \in Reqs :
       (Accepted(r) /\ (order[r].status # "confirmed" \/ order[r].id \notin DOMAIN store)) =>
         /\ \A e \in DOMAIN emails : e.id # order[r].id
         /\ \A m \in Messages : m.content.id # order[r].id

\* A confirmation was sent for the confirmed order while the other order is
\* stored as payment_failed and every message was handled.
C37_Witness ==
  /\ \E e \in DOMAIN emails : store[e.id].status = "confirmed"
  /\ \E r \in Reqs :
       /\ pc[r] = "done"
       /\ order[r].id \in DOMAIN store
       /\ store[order[r].id].status = "payment_failed"
  /\ handlers = {}
  /\ queue = << >>

\* C39: when the Charge RPC fails, the request is answered 500, its order
\* stays pending and is never written to the store, no event is published for
\* it, and GET /order/:id of its id answers 404.
C39_RpcFailureLeavesNothing ==
  \A r \in Reqs :
    (Accepted(r) /\ CallFor(r).state = "failed") =>
      /\ pc[r] = "done"
      /\ resp[r].code = 500
      /\ order[r].status = "pending"
      /\ order[r].id \notin DOMAIN store
      /\ Count(writes, order[r].id) = 0
      /\ Count(published, order[r].id) = 0
      /\ \A m \in Messages : m.content.id # order[r].id
      /\ GetOrder(order[r].id, TRUE).code = 404

\* The RPC of the first request failed; the second request was confirmed,
\* stored and published since.
C39_Witness ==
  \E r, q \in Reqs :
    /\ r < q
    /\ Accepted(r) /\ Accepted(q)
    /\ CallFor(r).state = "failed"
    /\ resp[r].code = 500
    /\ resp[q].code = 201
    /\ order[q].id \in DOMAIN store
    /\ Count(published, order[q].id) = 1

\* The delivery handled by h ends in this step: no handler holds its message
\* afterwards.
Settles(h) == \A g \in handlers' : g.msg # h.msg

\* C36: every delivery is settled exactly once.  A handler is at one of its
\* two awaits and each of them can resume; the step in which the handling of
\* a delivery ends is either an ack (the message is gone: nothing joins the
\* queue) or a nack with requeue (the message is back at the head of the
\* queue, redelivered), never both and never neither; a payload that does not
\* parse is nacked with requeue in the run of its delivery.  The messages at
\* the broker and with the worker are conserved otherwise.
C36_SettledExactlyOnce ==
  /\ [](\A h \in handlers :
          /\ h.pc \in {"get", "send"}
          /\ h.pc = "get" => ENABLED ConsumerGet(h, TRUE)
          /\ h.pc = "send" => ENABLED ConsumerSend(h, TRUE))
  /\ [][\A h \in handlers :
          Settles(h) =>
            /\ handlers' = handlers \ {h}
            /\ \/ queue' = queue
               \/ queue' = <<Requeued(h)>> \o queue
            /\ queue' = queue <=>
                 \/ ConsumerGet(h, TRUE) /\ h.msg.content.id \notin DOMAIN store
                 \/ ConsumerSend(h, TRUE)
            /\ queue' = <<Requeued(h)>> \o queue <=>
                 \/ ConsumerGet(h, FALSE)
                 \/ ConsumerSend(h, FALSE)
       ]_vars
  /\ [][(Deliver /\ ~Head(queue).json) =>
          /\ handlers' = handlers
          /\ Len(queue') = Len(queue)
          /\ queue'[1] = [Head(queue) EXCEPT !.redelivered = TRUE]]_vars
  /\ [][(Deliver /\ Head(queue).json) =>
          /\ handlers' = handlers \cup {NewHandler(Head(queue))}
          /\ Cardinality(handlers') = Cardinality(handlers) + 1
          /\ queue' = Tail(queue)]_vars

\* An email was sent and its delivery acknowledged, and a payload that does
\* not parse was delivered and is back at the head of the queue.
C36_Witness ==
  /\ emails # << >>
  /\ handlers = {}
  /\ Len(queue) = 1
  /\ ~queue[1].json
  /\ queue[1].redelivered

\* The places of q that hold a payload that is not JSON.
Unparseable(q) == {i \in DOMAIN q : ~q[i].json}

\* C38: a delivery whose payload does not parse, or whose get fails with a
\* store error, is nacked with requeue: the message is back at the head of
\* the queue, marked redelivered; it is not acknowledged or dropped and no
\* email is sent; the broker then delivers it again, each time.
C38_FailedHandlingRequeues ==
  /\ [][\A h \in handlers :
          ConsumerGet(h, FALSE) =>
            /\ handlers' = handlers \ {h}
            /\ queue' = <<Requeued(h)>> \o queue
            /\ emails' = emails]_vars
  /\ [][(Deliver /\ ~Head(queue).json) =>
          /\ queue' = <<[Head(queue) EXCEPT !.redelivered = TRUE]>> \o Tail(queue)
          /\ handlers' = handlers
          /\ emails' = emails]_vars
  /\ [][Cardinality(Unparseable(queue')) >= Cardinality(Unparseable(queue))]_vars
  /\ []((handlers = {} /\ queue # << >> /\ Head(queue).redelivered) => ENABLED Deliver)
  /\ [](\A h \in handlers : h.msg.json)

\* A payload that does not parse was delivered and requeued; the event of a
\* stored order waits behind it and no email was sent.
C38_Witness ==
  /\ Len(queue) >= 2
  /\ ~queue[1].json
  /\ queue[1].redelivered
  /\ queue[2].content.id \in DOMAIN published
  /\ emails = << >>

\* C40: with only the order service publishing, every published confirmation
\* event is eventually acknowledged (it is neither queued nor being handled)
\* after a confirmation was sent for its order.
C40_EventuallyConfirmed ==
  \A id \in Reqs :
    (Count(published, id) > 0) ~>
      /\ \E e \in DOMAIN emails : e.id = id
      /\ \A m \in Messages : m.content.id # id

\* The confirmation of a requeued event was sent and the event acknowledged.
C40_Witness ==
  /\ \E e \in DOMAIN emails : emails[e] = 1 /\ e.id = 2
  /\ \E h \in handlers : h.msg.redelivered /\ h.msg.content.id = 1 /\ h.pc = "send"
  /\ queue = << >>

====
